---- MODULE Spec2Model ----
(***************************************************************************)
(* Crawl job orchestration engine of nrad-K/go-crawler: the key-value job  *)
(* queue (internal/infra/crawl_job_client.go), the job generator and the   *)
(* job executor (internal/usecase/crawler.go).  The executor exists in two *)
(* forms in the sources: CrawlJobExecutorUseCase.Run, which polls          *)
(* FindListByStatus in a loop, and executeCrawlJobUseCase.ExecuteCrawlJob, *)
(* which consumes FindListByStatusStream once.  Both are modelled; the     *)
(* variable variant records which one a run uses.                          *)
(***************************************************************************)
EXTENDS Integers, Sequences, FiniteSets, TLC

\* ---------------------------------------------------------------- bounds
\* urls the store can hold records for
NumURLs == 3
\* job ids (uuid.New) a run can draw
MaxId == 6
\* capacity of the channel of FindListByStatusStream
ChanCap == 2
\* list links listLinksByMode returns at most
MaxSeeds == 2
\* detail links the listing pages of one Generate run show in total
MaxLinks == 2
\* listing pages of one list link the page counter tells apart
MaxPages == 2
\* urls the detail links point to: 1..NumTargets
NumTargets == 2

\* width of int in bits
IntBits == 4
\* largest cfg.Pagination.PerPage
MaxPerPage == 2
\* largest cfg.Pagination.Start
MaxStart == 1
\* largest cfg.RetryCount
MaxRetry == 2
\* longest text of the total-count element given to extractTotalCount alone
MaxTextLen == 3
MaxPathLen == 4
MaxSegLen == 3

URLs == 1..NumURLs
Ids == 1..MaxId

\* ------------------------------------------------- int arithmetic, texts
MaxInt == 2 ^ (IntBits - 1) - 1
MinInt == -(2 ^ (IntBits - 1))

\* an int result: two's complement wrap-around
Wrap(x) ==
  LET m == x % (2 ^ IntBits) IN
  IF m > MaxInt THEN m - 2 ^ IntBits ELSE m

\* a / b of Go for b > 0: truncated toward zero
TruncDiv(a, b) == IF a >= 0 THEN a \div b ELSE -((-a) \div b)

\* the characters of a text: the decimal digits, the comma, and "x" for any
\* other character
DigitChars == <<"0", "1", "2", "3", "4", "5", "6", "7", "8", "9">>
IsDigit(c) == \E d \in 1..10 : DigitChars[d] = c
DigitVal(c) == (CHOOSE d \in 1..10 : DigitChars[d] = c) - 1
IsDigitOrComma(c) == IsDigit(c) \/ c = ","
Alphabet == {DigitChars[d] : d \in 1..10} \cup {",", "x"}
Texts(n) == UNION {[1..k -> Alphabet] : k \in 0..n}

\* the decimal text of n >= 0
RECURSIVE Itoa(_)
Itoa(n) ==
  IF n < 10 THEN <<DigitChars[n + 1]>>
  ELSE Itoa(n \div 10) \o <<DigitChars[(n % 10) + 1]>>

\* the number a sequence of digits reads as
RECURSIVE DecVal(_)
DecVal(ds) ==
  IF ds = <<>> THEN 0
  ELSE DecVal(SubSeq(ds, 1, Len(ds) - 1)) * 10 + DigitVal(ds[Len(ds)])

\* regexp `[0-9,]+` FindString: the leftmost run of digits and commas, as
\* long as it goes; "" when there is none
FindString(t) ==
  IF \A i \in 1..Len(t) : ~IsDigitOrComma(t[i]) THEN <<>>
  ELSE LET i == CHOOSE a \in 1..Len(t) :
                  /\ IsDigitOrComma(t[a])
                  /\ \A b \in 1..(a - 1) : ~IsDigitOrComma(t[b])
           j == CHOOSE a \in i..Len(t) :
                  /\ \A b \in i..a : IsDigitOrComma(t[b])
                  /\ a = Len(t) \/ ~IsDigitOrComma(t[a + 1])
       IN SubSeq(t, i, j)

\* strings.ReplaceAll(match, ",", "")
NotComma(c) == c # ","
ReplaceAll(match) == SelectSeq(match, NotComma)

\* strconv.Atoi of a sequence of digits: an error for "" and for a value
\* out of the range of int
Atoi(ds) ==
  IF ds = <<>> \/ DecVal(ds) > MaxInt
  THEN [ok |-> FALSE, n |-> 0]
  ELSE [ok |-> TRUE, n |-> DecVal(ds)]

\* mutant of extractTotalCount: a text without a number counts as zero
extractTotalCount_ZeroDefault(t) ==
  LET match == FindString(t) IN
  IF match = <<>> THEN [ok |-> TRUE, n |-> 0]
  ELSE Atoi(ReplaceAll(match))

extractTotalCount(t) ==
  LET match == FindString(t) IN
  IF match = <<>> THEN [ok |-> FALSE, n |-> 0]
  ELSE Atoi(ReplaceAll(match))

\* ------------------------------------------------- config.CrawlStrategy
CrawlByNextLink == "next_link"
CrawlByTotalCount == "total_count"

\* ------------------------------------------------- model.CrawlJobStatus
CrawlJobStatusPending == "PENDING"
CrawlJobStatusSuccess == "SUCCESS"
CrawlJobStatusFailed == "FAILED"
Statuses == {CrawlJobStatusPending, CrawlJobStatusSuccess, CrawlJobStatusFailed}

\* model.CrawlJob: surrogate id, url, status
Job(i, u, s) == [id |-> i, url |-> u, status |-> s]

\* the value read for a key that holds nothing (redis.Nil)
Nil == [id |-> 0, url |-> 0, status |-> "nil"]

\* ------------------------------------------------------ key generation
\* A key is <<prefix, separator, url>>: the Sprintf format of each status.
generatePendingJobKey(u) == <<"pending_job:", "", u>>
generateSuccessJobKey(u) == <<"success_job:", " ", u>>
generateFailedJobKey(u) == <<"failed_job:", " ", u>>

generateJobKey(job) ==
  CASE job.status = CrawlJobStatusPending -> generatePendingJobKey(job.url)
    [] job.status = CrawlJobStatusSuccess -> generateSuccessJobKey(job.url)
    [] job.status = CrawlJobStatusFailed -> generateFailedJobKey(job.url)

getJobKeyPattern(status) ==
  CASE status = CrawlJobStatusSuccess -> "success_job:"
    [] status = CrawlJobStatusFailed -> "failed_job:"
    [] status = CrawlJobStatusPending -> "pending_job:"

\* glob match of "<prefix>*" against a key
MatchesPattern(key, pattern) == key[1] = pattern

KeySpace ==
  {generatePendingJobKey(u) : u \in URLs} \cup
  {generateSuccessJobKey(u) : u \in URLs} \cup
  {generateFailedJobKey(u) : u \in URLs}

\* mutant of RepoDelete: DEL of the url's key under every status
RepoDelete_AnyStatus(st, job) ==
  [k \in DOMAIN st |-> IF k[3] = job.url THEN Nil ELSE st[k]]

\* ------------------------------------------------- repository operations
\* crawlJobClient.Save: SET key record (total replace)
RepoSave(st, job) == [st EXCEPT ![generateJobKey(job)] = job]

\* crawlJobClient.Delete: DEL key
RepoDelete(st, job) == [st EXCEPT ![generateJobKey(job)] = Nil]

\* mutant of RepoExists: the existence check never finds the record
RepoExists_Never(st, job) == FALSE

\* crawlJobClient.Exists: EXISTS key > 0
RepoExists(st, job) == st[generateJobKey(job)] # Nil

\* the urls whose key under the pattern of a status holds a record
KeysOf(st, status) ==
  {u \in URLs : \E k \in KeySpace :
      /\ MatchesPattern(k, getJobKeyPattern(status))
      /\ k[3] = u
      /\ st[k] # Nil}

HasRecord(st, status, u) == st[generateJobKey(Job(0, u, status))] # Nil

\* ----------------------------------------------------------------- state
VARIABLES
  store,        \* the key-value store: KeySpace -> record or Nil
  html,         \* the artifact sink: id -> url whose markup is saved as id.html, 0 if none
  down,         \* urls whose navigation currently fails
  faults,       \* which collaborators may fail: "store" (redis), "browser" (GetHTML, SaveHTML)
  cancelled,    \* the context passed to the use cases is done
  crashed,      \* the process has died
  variant,      \* "Run" or "Execute": which executor the current run uses
  epc,          \* executor position
  jobs,         \* Run: the rest of the batch returned by FindListByStatus
  cur,          \* the job being processed
  spc,          \* FindListByStatusStream goroutine position
  cursor,       \* the SCAN cursor: the part 1..cursor of the key space is passed
  keys,         \* keys of the last SCAN reply not yet read
  resultCh,     \* the buffered result channel
  eresult,      \* what the executor returned: "none", "nil" or "error"
  batch,        \* history: urls of the batch being processed
  passFailed,   \* history: urls whose processing returned an error in this batch
  startPending, \* history: urls that had a PENDING record when the executor started
  delivered,    \* history: urls sent as a job on the channel since the executor started
  orphaned,     \* history: urls whose Delete(PENDING) succeeded and Save(SUCCESS) did not
  artifactDone, \* history: SaveHTML succeeded in the current processCrawl
  gpc,          \* generator position
  seedsLeft,    \* list links of GenerateCrawlJob's loop not yet taken
  pageNum,      \* createJobsByNextLink: pageNum
  tasks,        \* the errgroup goroutines of the current page, one per detail link
  pageJobCount, \* createJobsByNextLink: pageJobCount (atomic counter)
  jobCount,     \* createJobsByNextLink: jobCount
  gresult,      \* what GenerateCrawlJob returned: "none", "nil" or "error"
  linksLeft,    \* detail links the site still has to show in this run
  gvariant,     \* "Generate" or "Run": which generator the current run uses
  strategy,     \* cfg.Strategy
  perPage,      \* cfg.Pagination.PerPage
  start,        \* cfg.Pagination.Start
  retryCount,   \* cfg.RetryCount
  text,         \* createJobsByTotalCount: texts[0] of the listing last read
  totalCount,   \* createJobsByTotalCount: totalCount
  pageCount,    \* createJobsByTotalCount: pageCount
  page,         \* createJobsByTotalCount: page
  pages,        \* history: page indices whose submission returned nil
  retry,        \* Run: retry
  procErr,      \* Run: procErr != nil
  successCount, \* Run: successCount
  fn,           \* the function or method called on its own, "none" before the call
  arg,          \* the arguments of that call
  res,          \* what the call returned: [ok, val]
  lastOp,       \* history: the last Save or Delete made on each key of the store
  tabClick,     \* cfg.Selector.TabClickSelector != ""
  clicked,      \* history: urls of the jobs for which processCrawl issued the tab Click
  clickFailed   \* history: urls of the jobs whose tab Click returned an error

storeVars == <<store, html>>
envVars == <<down, faults, cancelled, crashed>>
execVars == <<variant, epc, jobs, cur, spc, cursor, keys, resultCh, eresult>>
histVars == <<batch, passFailed, startPending, delivered, orphaned,
              artifactDone>>
cfgVars == <<gvariant, strategy, perPage, start, retryCount>>
totVars == <<text, totalCount, pageCount, page, pages, retry, procErr,
             successCount>>
fnVars == <<fn, arg, res, lastOp>>
revealVars == <<tabClick, clicked, clickFailed>>
genVars == <<gpc, seedsLeft, pageNum, tasks, pageJobCount, jobCount, gresult,
             linksLeft, cfgVars, revealVars, totVars, fnVars>>
vars == <<storeVars, envVars, execVars, histVars, genVars>>

\* a store operation can fail when the store is faulty or the context is done
StoreMayFail == "store" \in faults \/ cancelled

\* the elements of a set of urls as a sequence, in key order
RECURSIVE SetToSeq(_)
SetToSeq(S) ==
  IF S = {} THEN <<>>
  ELSE LET x == CHOOSE y \in S : \A z \in S : y <= z
       IN <<x>> \o SetToSeq(S \ {x})

\* the record stored under the PENDING key of u
PendingJob(st, u) == st[generatePendingJobKey(u)]

\* mutant of ChangeStatus: the copy is a new job with an id of its own
ChangeStatus_NewId(job, newStatus) ==
  Job((job.id % MaxId) + 1, job.url, newStatus)

\* CrawlJob.ChangeStatus
ChangeStatus(job, newStatus) == Job(job.id, job.url, newStatus)

\* ------------------------------------------------------------------ Init
InitStore(P) ==
  [k \in KeySpace |->
     IF k[1] = "pending_job:" /\ k[3] \in P
     THEN Job(k[3], k[3], CrawlJobStatusPending) ELSE Nil]

ExecIdle ==
  /\ variant = "Execute"
  /\ epc = "idle"
  /\ jobs = <<>>
  /\ cur = Nil
  /\ spc = "idle"
  /\ cursor = 0
  /\ keys = <<>>
  /\ resultCh = <<>>
  /\ eresult = "none"

HistInit ==
  /\ clicked = {}
  /\ clickFailed = {}
  /\ batch = {}
  /\ passFailed = {}
  /\ startPending = {}
  /\ delivered = {}
  /\ orphaned = {}
  /\ artifactDone = FALSE

\* the result slot before a call
NoRes == [ok |-> FALSE, val |-> <<>>]

\* no function is called on its own
FnIdle ==
  /\ fn = "none"
  /\ arg = <<>>
  /\ res = NoRes
  /\ lastOp = <<>>

\* the locals of createJobsByNextLink and of GenerateCrawlJob before the run
NextLinkLocals ==
  /\ gpc = "idle"
  /\ seedsLeft = 0
  /\ pageNum = 1
  /\ tasks = <<>>
  /\ pageJobCount = 0
  /\ jobCount = 0
  /\ gresult = "none"
  /\ linksLeft = MaxLinks

NextLinkIdle == FnIdle /\ NextLinkLocals

\* the locals of createJobsByTotalCount and of PrefectureCrawlerUseCase.Run
\* before the run
TotalIdle ==
  /\ totalCount = 0
  /\ pageCount = 0
  /\ page = 0
  /\ pages = {}
  /\ retry = 0
  /\ procErr = FALSE
  /\ successCount = 0

GenIdle == NextLinkIdle /\ text = <<>> /\ TotalIdle

\* strategy: next_link run by GenerateCrawlJob; the pagination block and
\* retry_count are not read
CfgNextLink ==
  /\ gvariant = "Generate"
  /\ strategy = CrawlByNextLink
  /\ perPage = 1
  /\ start = 1
  /\ retryCount = 0
  /\ tabClick = FALSE

\* The queue as a Generate run left it: PENDING records only.
InitExec ==
  /\ \E P \in SUBSET URLs :
       /\ store = InitStore(P)
       /\ down \in SUBSET P
  /\ html = [i \in Ids |-> 0]
  /\ faults \in SUBSET {"store", "browser"}
  /\ cancelled = FALSE
  /\ crashed = FALSE
  /\ ExecIdle
  /\ HistInit
  /\ GenIdle
  /\ CfgNextLink

\* ------------------------------------------------------------- executor
\* entry of Run / ExecuteCrawlJob
ExecStart(v) ==
  /\ ~crashed
  /\ UNCHANGED genVars
  /\ epc = "idle"
  /\ gpc \in {"idle", "done"}
  /\ variant' = v
  /\ eresult' = "none"
  /\ passFailed' = {}
  /\ startPending' = KeysOf(store, CrawlJobStatusPending)
  /\ delivered' = {}
  /\ batch' = KeysOf(store, CrawlJobStatusPending)
  /\ artifactDone' = FALSE
  /\ IF v = "Execute"
     THEN \* FindListByStatusStream: make the channel, start the goroutine
          /\ epc' = "recv"
          /\ spc' = "scan"
          /\ cursor' = 0
          /\ keys' = <<>>
          /\ resultCh' = <<>>
     ELSE /\ epc' = "find"
          /\ UNCHANGED <<spc, cursor, keys, resultCh>>
  /\ UNCHANGED <<storeVars, envVars, jobs, cur, orphaned>>

\* --- FindListByStatusStream goroutine
\* select on ctx.Done() at the top of the SCAN loop and of the key loop
StreamCtxDone ==
  /\ ~crashed
  /\ UNCHANGED genVars
  /\ spc \in {"scan", "get"}
  /\ cancelled
  /\ spc' = "closed"
  /\ keys' = <<>>
  /\ UNCHANGED <<storeVars, envVars, variant, epc, jobs, cur, cursor, resultCh,
                 eresult, histVars>>

\* mutant of StreamScan: after a SCAN error the goroutine scans again
StreamScan_RetryAfterError ==
  /\ ~crashed
  /\ UNCHANGED genVars
  /\ spc = "scan"
  /\ ~cancelled
  /\ \/ \E next \in (cursor + 1)..NumURLs :
          /\ cursor' = next
          /\ keys' = SetToSeq({u \in (cursor + 1)..next :
                                 u \in KeysOf(store, CrawlJobStatusPending)})
          /\ spc' = "get"
          /\ resultCh' = resultCh
     \/ /\ StoreMayFail
        /\ Len(resultCh) < ChanCap
        /\ resultCh' = Append(resultCh, [job |-> Nil, err |-> TRUE])
        /\ spc' = "scan"
        /\ UNCHANGED <<cursor, keys>>
  /\ UNCHANGED <<storeVars, envVars, variant, epc, jobs, cur, eresult, histVars>>

\* mutant of StreamScan: the reply leaves out the first key after the cursor
StreamScan_SkipKey ==
  /\ ~crashed
  /\ UNCHANGED genVars
  /\ spc = "scan"
  /\ ~cancelled
  /\ \/ \E next \in (cursor + 1)..NumURLs :
          /\ cursor' = next
          /\ keys' = SetToSeq({u \in (cursor + 2)..next :
                                 u \in KeysOf(store, CrawlJobStatusPending)})
          /\ spc' = "get"
          /\ resultCh' = resultCh
     \/ /\ StoreMayFail
        /\ Len(resultCh) < ChanCap
        /\ resultCh' = Append(resultCh, [job |-> Nil, err |-> TRUE])
        /\ spc' = "closed"
        /\ UNCHANGED <<cursor, keys>>
  /\ UNCHANGED <<storeVars, envVars, variant, epc, jobs, cur, eresult, histVars>>

\* redis.Scan(cursor, pattern, batchSize): the reply covers the next part
\* of the key space after the cursor and lists the matching keys in it
StreamScan ==
  /\ ~crashed
  /\ UNCHANGED genVars
  /\ spc = "scan"
  /\ ~cancelled
  /\ \/ \E next \in (cursor + 1)..NumURLs :
          /\ cursor' = next
          /\ keys' = SetToSeq({u \in (cursor + 1)..next :
                                 u \in KeysOf(store, CrawlJobStatusPending)})
          /\ spc' = "get"
          /\ resultCh' = resultCh
     \/ \* SCAN error: one error element, then return
        /\ StoreMayFail
        /\ Len(resultCh) < ChanCap
        /\ resultCh' = Append(resultCh, [job |-> Nil, err |-> TRUE])
        /\ spc' = "closed"
        /\ UNCHANGED <<cursor, keys>>
  /\ UNCHANGED <<storeVars, envVars, variant, epc, jobs, cur, eresult, histVars>>

\* mutant of StreamGet: a key is read and nothing is sent for it
StreamGet_Drop ==
  /\ ~crashed
  /\ UNCHANGED genVars
  /\ spc = "get"
  /\ ~cancelled
  /\ keys # <<>>
  /\ keys' = Tail(keys)
  /\ UNCHANGED <<storeVars, envVars, variant, epc, jobs, cur, spc, cursor,
                 resultCh, eresult, histVars>>

\* mutant of StreamGet: a record that cannot be read ends the enumeration
StreamGet_AbortOnError ==
  /\ ~crashed
  /\ UNCHANGED genVars
  /\ spc = "get"
  /\ ~cancelled
  /\ keys # <<>>
  /\ Len(resultCh) < ChanCap
  /\ LET u == Head(keys)
         rec == PendingJob(store, u)
     IN \/ /\ rec # Nil
           /\ resultCh' = Append(resultCh, [job |-> rec, err |-> FALSE])
           /\ delivered' = delivered \cup {u}
           /\ spc' = spc
        \/ /\ rec = Nil \/ StoreMayFail
           /\ resultCh' = Append(resultCh, [job |-> Nil, err |-> TRUE])
           /\ delivered' = delivered
           /\ spc' = "closed"
  /\ keys' = Tail(keys)
  /\ UNCHANGED <<storeVars, envVars, variant, epc, jobs, cur, cursor,
                 eresult, batch, passFailed, startPending, orphaned,
                 artifactDone>>

\* redis.Get(key), Unmarshal, ToDomain, send on the channel
StreamGet ==
  /\ ~crashed
  /\ UNCHANGED genVars
  /\ spc = "get"
  /\ ~cancelled
  /\ keys # <<>>
  /\ Len(resultCh) < ChanCap
  /\ LET u == Head(keys)
         rec == PendingJob(store, u)
     IN \/ /\ rec # Nil
           /\ resultCh' = Append(resultCh, [job |-> rec, err |-> FALSE])
           /\ delivered' = delivered \cup {u}
        \/ /\ rec = Nil \/ StoreMayFail
           /\ resultCh' = Append(resultCh, [job |-> Nil, err |-> TRUE])
           /\ delivered' = delivered
  /\ keys' = Tail(keys)
  /\ UNCHANGED <<storeVars, envVars, variant, epc, jobs, cur, spc, cursor,
                 eresult, batch, passFailed, startPending, orphaned,
                 artifactDone>>

\* mutant of StreamNext: the goroutine returns after the first SCAN reply
StreamNext_CloseEarly ==
  /\ ~crashed
  /\ UNCHANGED genVars
  /\ spc = "get"
  /\ ~cancelled
  /\ keys = <<>>
  /\ spc' = "closed"
  /\ UNCHANGED <<storeVars, envVars, variant, epc, jobs, cur, cursor, keys,
                 resultCh, eresult, histVars>>

\* end of the key loop: leave when nextCursor is 0, else SCAN again
StreamNext ==
  /\ ~crashed
  /\ UNCHANGED genVars
  /\ spc = "get"
  /\ ~cancelled
  /\ keys = <<>>
  /\ spc' = IF cursor = NumURLs THEN "closed" ELSE "scan"
  /\ UNCHANGED <<storeVars, envVars, variant, epc, jobs, cur, cursor, keys,
                 resultCh, eresult, histVars>>

\* --- ExecuteCrawlJob: for result := range resultStream
ExecRecv ==
  /\ ~crashed
  /\ UNCHANGED genVars
  /\ epc = "recv"
  /\ \/ /\ resultCh # <<>>
        /\ resultCh' = Tail(resultCh)
        /\ IF Head(resultCh).err
           THEN /\ epc' = "recv"
                /\ UNCHANGED <<cur, artifactDone>>
           ELSE /\ epc' = "navigate"
                /\ cur' = Head(resultCh).job
                /\ artifactDone' = FALSE
        /\ UNCHANGED eresult
     \/ /\ resultCh = <<>>
        /\ spc = "closed"
        /\ epc' = "done"
        /\ eresult' = "nil"
        /\ UNCHANGED <<resultCh, cur, artifactDone>>
  /\ UNCHANGED <<storeVars, envVars, variant, jobs, spc, cursor, keys,
                 batch, passFailed, startPending, delivered, orphaned>>

\* --- Run: FindListByStatus, then the batch
ExecFind ==
  /\ ~crashed
  /\ UNCHANGED genVars
  /\ epc = "find"
  /\ \/ LET js == SetToSeq(KeysOf(store, CrawlJobStatusPending)) IN
          IF js = <<>>
          THEN /\ epc' = "done"
               /\ eresult' = "nil"
               /\ UNCHANGED <<jobs, cur, artifactDone>>
          ELSE /\ epc' = "navigate"
               /\ cur' = PendingJob(store, Head(js))
               /\ jobs' = [i \in 1..(Len(js) - 1) |-> PendingJob(store, js[i + 1])]
               /\ artifactDone' = FALSE
               /\ UNCHANGED eresult
     \/ /\ StoreMayFail
        /\ epc' = "done"
        /\ eresult' = "error"
        /\ UNCHANGED <<jobs, cur, artifactDone>>
  /\ passFailed' = {}
  /\ batch' = IF epc' = "navigate" THEN KeysOf(store, CrawlJobStatusPending) ELSE {}
  /\ UNCHANGED <<storeVars, envVars, variant, spc, cursor, keys, resultCh,
                 startPending, delivered, orphaned>>

\* the loop of Run's batch moves to the next job, or to the pause after the batch
NextInBatch ==
  IF jobs = <<>>
  THEN /\ epc' = "sleep"
       /\ UNCHANGED <<jobs, cur, artifactDone>>
  ELSE /\ epc' = "navigate"
       /\ cur' = Head(jobs)
       /\ jobs' = Tail(jobs)
       /\ artifactDone' = FALSE

\* mutant of ProcFail: the error of one job ends the loop over the batch
ProcFail_Abort ==
  /\ passFailed' = passFailed \cup {cur.url}
  /\ IF variant = "Execute"
     THEN epc' = "done"
     ELSE epc' = "sleep"
  /\ UNCHANGED <<jobs, cur>>

\* mutant of ProcFail: ExecuteCrawlJob too saves a FAILED record after an error
ProcFail_SaveFailedAlways ==
  /\ passFailed' = passFailed \cup {cur.url}
  /\ epc' = "saveFailed"
  /\ UNCHANGED <<jobs, cur>>

\* processCrawl / processCrawlJob returned an error to its caller:
\* ExecuteCrawlJob logs, counts and takes the next result;
\* Run goes on to save a FAILED record
ProcFail ==
  /\ passFailed' = passFailed \cup {cur.url}
  /\ IF variant = "Execute"
     THEN epc' = "recv"
     ELSE epc' = "saveFailed"
  /\ UNCHANGED <<jobs, cur>>

\* processCrawl / processCrawlJob returned nil
ProcOK ==
  IF variant = "Execute"
  THEN /\ epc' = "recv"
       /\ UNCHANGED <<jobs, cur, artifactDone>>
  ELSE NextInBatch

\* client.Navigate(job.URL()); processCrawl then clicks the tab when a
\* TabClickSelector is configured, processCrawlJob of Run has no such step
ExecNavigate ==
  /\ ~crashed
  /\ UNCHANGED genVars
  /\ epc = "navigate"
  /\ IF cur.url \in down
     THEN ProcFail
     ELSE /\ epc' = IF variant = "Execute" /\ tabClick THEN "click" ELSE "getHTML"
          /\ UNCHANGED <<jobs, cur, passFailed>>
  /\ UNCHANGED <<storeVars, envVars, variant, spc, cursor, keys, resultCh,
                 eresult, batch, startPending, delivered, orphaned, artifactDone>>

\* mutant of ExecClick: an error of the Click ends processCrawl with an error
ExecClick_Fatal ==
  /\ ~crashed
  /\ epc = "click"
  /\ clicked' = clicked \cup {cur.url}
  /\ \/ /\ epc' = "getHTML"
        /\ UNCHANGED <<jobs, cur, passFailed, clickFailed>>
     \/ /\ "browser" \in faults
        /\ clickFailed' = clickFailed \cup {cur.url}
        /\ ProcFail
  /\ UNCHANGED <<storeVars, envVars, variant, spc, cursor, keys, resultCh,
                 eresult, batch, startPending, delivered, orphaned, artifactDone,
                 gpc, seedsLeft, pageNum, tasks, pageJobCount, jobCount,
                 gresult, linksLeft, cfgVars, tabClick, totVars, fnVars>>

\* client.Click(cfg.Selector.TabClickSelector): an error is logged and
\* processCrawl goes on to GetHTML
ExecClick ==
  /\ ~crashed
  /\ epc = "click"
  /\ clicked' = clicked \cup {cur.url}
  /\ \/ UNCHANGED clickFailed
     \/ /\ "browser" \in faults
        /\ clickFailed' = clickFailed \cup {cur.url}
  /\ epc' = "getHTML"
  /\ UNCHANGED <<jobs, cur, passFailed>>
  /\ UNCHANGED <<storeVars, envVars, variant, spc, cursor, keys, resultCh,
                 eresult, batch, startPending, delivered, orphaned, artifactDone,
                 gpc, seedsLeft, pageNum, tasks, pageJobCount, jobCount,
                 gresult, linksLeft, cfgVars, tabClick, totVars, fnVars>>

\* client.GetHTML()
ExecGetHTML ==
  /\ ~crashed
  /\ UNCHANGED genVars
  /\ epc = "getHTML"
  /\ \/ /\ epc' = "saveHTML"
        /\ UNCHANGED <<jobs, cur, passFailed>>
     \/ /\ "browser" \in faults
        /\ ProcFail
  /\ UNCHANGED <<storeVars, envVars, variant, spc, cursor, keys, resultCh,
                 eresult, batch, startPending, delivered, orphaned, artifactDone>>

\* mutant of ExecSaveHTML: the error of SaveHTML is ignored
ExecSaveHTML_IgnoreError ==
  /\ ~crashed
  /\ UNCHANGED genVars
  /\ epc = "saveHTML"
  /\ \/ /\ html' = [html EXCEPT ![cur.id] = cur.url]
        /\ artifactDone' = TRUE
     \/ /\ "browser" \in faults
        /\ UNCHANGED <<html, artifactDone>>
  /\ epc' = "delete"
  /\ UNCHANGED <<jobs, cur, passFailed>>
  /\ UNCHANGED <<store, envVars, variant, spc, cursor, keys, resultCh,
                 eresult, batch, startPending, delivered, orphaned>>

\* client.SaveHTML(job.ID() + ".html", html)
ExecSaveHTML ==
  /\ ~crashed
  /\ UNCHANGED genVars
  /\ epc = "saveHTML"
  /\ \/ /\ html' = [html EXCEPT ![cur.id] = cur.url]
        /\ artifactDone' = TRUE
        /\ epc' = "delete"
        /\ UNCHANGED <<jobs, cur, passFailed>>
     \/ /\ "browser" \in faults
        /\ ProcFail
        /\ UNCHANGED <<html, artifactDone>>
  /\ UNCHANGED <<store, envVars, variant, spc, cursor, keys, resultCh,
                 eresult, batch, startPending, delivered, orphaned>>

\* mutant of ExecDelete: the DEL takes the url's key under every status
ExecDelete_AllStatuses ==
  /\ ~crashed
  /\ UNCHANGED genVars
  /\ epc = "delete"
  /\ \/ /\ store' = RepoDelete_AnyStatus(store, cur)
        /\ epc' = "saveSuccess"
        /\ UNCHANGED <<jobs, cur, passFailed>>
     \/ /\ StoreMayFail
        /\ ProcFail
        /\ UNCHANGED store
  /\ UNCHANGED <<html, envVars, variant, spc, cursor, keys, resultCh,
                 eresult, batch, startPending, delivered, orphaned, artifactDone>>

\* repo.Delete(ctx, job): the job still carries status PENDING
ExecDelete ==
  /\ ~crashed
  /\ UNCHANGED genVars
  /\ epc = "delete"
  /\ \/ /\ store' = RepoDelete(store, cur)
        /\ epc' = "saveSuccess"
        /\ UNCHANGED <<jobs, cur, passFailed>>
     \/ /\ StoreMayFail
        /\ ProcFail
        /\ UNCHANGED store
  /\ UNCHANGED <<html, envVars, variant, spc, cursor, keys, resultCh,
                 eresult, batch, startPending, delivered, orphaned, artifactDone>>

\* job.ChangeStatus(SUCCESS); repo.Save(ctx, newJob)
ExecSaveSuccess ==
  /\ ~crashed
  /\ UNCHANGED genVars
  /\ epc = "saveSuccess"
  /\ \/ /\ store' = RepoSave(store, ChangeStatus(cur, CrawlJobStatusSuccess))
        /\ ProcOK
        /\ UNCHANGED <<passFailed, orphaned>>
     \/ /\ StoreMayFail
        /\ ProcFail
        /\ orphaned' = orphaned \cup {cur.url}
        /\ UNCHANGED <<store, artifactDone>>
  /\ UNCHANGED <<html, envVars, variant, spc, cursor, keys, resultCh,
                 eresult, batch, startPending, delivered>>

\* Run only: repo.Save(ctx, newJob with status FAILED); a failed Save
\* breaks out of the batch
ExecSaveFailed ==
  /\ ~crashed
  /\ UNCHANGED genVars
  /\ epc = "saveFailed"
  /\ \/ /\ store' = RepoSave(store, Job(cur.id, cur.url, CrawlJobStatusFailed))
        /\ NextInBatch
     \/ /\ StoreMayFail
        /\ epc' = "sleep"
        /\ UNCHANGED <<store, jobs, cur, artifactDone>>
  /\ UNCHANGED <<html, envVars, variant, spc, cursor, keys, resultCh,
                 eresult, batch, passFailed, startPending, delivered, orphaned>>

\* Run only: time.Sleep(1s), then the next FindListByStatus
ExecSleep ==
  /\ ~crashed
  /\ UNCHANGED genVars
  /\ epc = "sleep"
  /\ epc' = "find"
  /\ jobs' = <<>>
  /\ UNCHANGED <<storeVars, envVars, variant, cur, spc, cursor, keys, resultCh,
                 eresult, histVars>>

\* ---------------------------------------------------------- environment
ExecRunning == epc \notin {"idle", "done"}
GenRunning == gpc \notin {"idle", "done", "panic", "parsed"}

\* the caller cancels the context
Cancel ==
  /\ ~crashed
  /\ ~cancelled
  /\ ExecRunning \/ GenRunning
  /\ cancelled' = TRUE
  /\ UNCHANGED <<storeVars, down, faults, crashed, execVars, histVars, genVars>>

\* a site that failed answers again
Recover(u) ==
  /\ ~crashed
  /\ UNCHANGED genVars
  /\ ExecRunning
  /\ u \in down
  /\ down' = down \ {u}
  /\ UNCHANGED <<storeVars, faults, cancelled, crashed, execVars, histVars>>

\* the process dies and its memory is lost; between Delete(PENDING) and
\* Save(SUCCESS) this leaves the job without a record
Crash ==
  /\ ~crashed
  /\ UNCHANGED genVars
  /\ ExecRunning
  /\ crashed' = TRUE
  /\ orphaned' = IF epc = "saveSuccess" THEN orphaned \cup {cur.url} ELSE orphaned
  /\ epc' = "crashed"
  /\ jobs' = <<>>
  /\ cur' = Nil
  /\ spc' = "idle"
  /\ cursor' = 0
  /\ keys' = <<>>
  /\ resultCh' = <<>>
  /\ UNCHANGED <<storeVars, down, faults, cancelled, variant, eresult,
                 batch, passFailed, startPending, delivered, artifactDone>>

NextExec ==
  \/ \E v \in {"Run", "Execute"} : ExecStart(v)
  \/ StreamCtxDone
  \/ StreamScan
  \/ StreamGet
  \/ StreamNext
  \/ ExecRecv
  \/ ExecFind
  \/ ExecNavigate
  \/ ExecGetHTML
  \/ ExecSaveHTML
  \/ ExecDelete
  \/ ExecSaveSuccess
  \/ ExecSaveFailed
  \/ ExecSleep
  \/ Cancel
  \/ \E u \in URLs : Recover(u)
  \/ Crash

SpecExec == InitExec /\ [][NextExec]_vars

\* ------------------------------------------------------------ generator
\* uuid.New(): an id that names no record, no artifact and no job in hand
UsedIds ==
  {store[k].id : k \in KeySpace} \cup {i \in Ids : html[i] # 0}
    \cup {tasks[i].job.id : i \in 1..Len(tasks)}

HasFreshId == Ids \ UsedIds # {}
FreshId == CHOOSE i \in Ids \ UsedIds : \A j \in Ids \ UsedIds : i <= j

\* model.NewCrawlJob(rawURL): a job with a new id and status PENDING
NewCrawlJob(u) == Job(FreshId, u, CrawlJobStatusPending)

\* the detail links a listing page can show: the urls 1..NumTargets, and 0
\* for a link that url.Parse or url.ParseRequestURI rejects; the links of a
\* page are listed in ascending order, their goroutines run in any order
Targets == 1..NumTargets

RECURSIVE LinkSeqs(_)
LinkSeqs(n) ==
  IF n = 0 THEN {<<>>}
  ELSE LinkSeqs(n - 1) \cup
       {Append(q[1], q[2]) :
          q \in {r \in {x \in LinkSeqs(n - 1) : Len(x) = n - 1} \X ({0} \cup Targets) :
                   r[1] = <<>> \/ r[1][Len(r[1])] <= r[2]}}

Task(link) == [pc |-> "start", link |-> link, job |-> Nil, err |-> FALSE]

\* The queue before a Generate run: the urls 1..p have a PENDING record from
\* an earlier Generate, the urls p+1..q a SUCCESS record from an earlier
\* Execute, the others none (one store for each way to split the urls, up to
\* renaming them).  Either every collaborator works, or the store and the
\* browser may each fail at any call.
InitGen ==
  /\ \E p \in 0..NumTargets : \E q \in p..NumTargets :
       store = [k \in KeySpace |->
                  IF k[1] = "pending_job:" /\ k[3] \in 1..p
                  THEN Job(k[3], k[3], CrawlJobStatusPending)
                  ELSE IF k[1] = "success_job:" /\ k[3] \in (p + 1)..q
                  THEN Job(k[3], k[3], CrawlJobStatusSuccess)
                  ELSE Nil]
  /\ html = [i \in Ids |-> 0]
  /\ down = {}
  /\ faults \in {{}, {"store", "browser"}}
  /\ cancelled = FALSE
  /\ crashed = FALSE
  /\ ExecIdle
  /\ HistInit
  /\ GenIdle
  /\ CfgNextLink

\* mutant of GenStart: no check of len(listLinks)
GenStart_NoCheck ==
  /\ ~crashed
  /\ gpc = "idle"
  /\ epc \in {"idle", "done"}
  /\ \E n \in 0..MaxSeeds :
       IF n = 0
       THEN /\ gpc' = "seed"
            /\ gresult' = "none"
            /\ UNCHANGED seedsLeft
       ELSE /\ gpc' = "seed"
            /\ gresult' = "none"
            /\ seedsLeft' = n
  /\ UNCHANGED <<storeVars, envVars, execVars, histVars, fnVars, cfgVars, revealVars, totVars,
                 pageNum, tasks, pageJobCount, jobCount, linksLeft>>

\* GenerateCrawlJob up to the loop: listLinksByMode, and the error return
\* when it found no list link
GenStart ==
  /\ ~crashed
  /\ gpc = "idle"
  /\ epc \in {"idle", "done"}
  /\ \E n \in 0..MaxSeeds :
       IF n = 0
       THEN /\ gpc' = "done"
            /\ gresult' = "error"
            /\ UNCHANGED seedsLeft
       ELSE /\ gpc' = "seed"
            /\ gresult' = "none"
            /\ seedsLeft' = n
  /\ UNCHANGED <<storeVars, envVars, execVars, histVars, fnVars, cfgVars, revealVars, totVars,
                 pageNum, tasks, pageJobCount, jobCount, linksLeft>>

\* the loop of GenerateCrawlJob takes the next list link (continue); the
\* locals of createJobsByNextLink are gone with its return
NextSeed ==
  /\ gpc' = "seed"
  /\ seedsLeft' = seedsLeft - 1
  /\ tasks' = <<>>
  /\ pageNum' = 1
  /\ pageJobCount' = 0
  /\ jobCount' = 0

\* for i, link := range listLinks: resolveURL(cfg.BaseURL, link)
GenSeed ==
  /\ ~crashed
  /\ gvariant = "Generate"
  /\ gpc = "seed"
  /\ IF seedsLeft = 0
     THEN /\ gpc' = "done"
          /\ gresult' = "nil"
          /\ UNCHANGED <<seedsLeft, tasks, pageNum, pageJobCount, jobCount>>
     ELSE /\ \/ /\ gpc' = "navSeed"
                /\ UNCHANGED <<seedsLeft, tasks, pageNum, pageJobCount, jobCount>>
             \/ \* the link does not parse: logged, continue
                NextSeed
          /\ UNCHANGED gresult
  /\ text' = <<>>
  /\ UNCHANGED <<storeVars, envVars, execVars, histVars, fnVars, cfgVars, revealVars, linksLeft,
                 totalCount, pageCount, page, pages, retry, procErr,
                 successCount>>

\* processListLink or processPrefecture returned an error.  GenerateCrawlJob
\* logs it and takes the next list link; Run counts the attempt, warns and
\* sleeps before the loop condition of the retries is read again.
ListingFailed ==
  IF gvariant = "Generate"
  THEN /\ NextSeed
       /\ UNCHANGED <<retry, procErr, successCount>>
  ELSE /\ gpc' = "retry"
       /\ procErr' = TRUE
       /\ retry' = retry + 1
       /\ UNCHANGED <<seedsLeft, tasks, pageNum, pageJobCount, jobCount,
                      successCount>>

\* processListLink (Run: processPrefecture): client.Navigate(link), then
\* createCrawlJobsByStrategy; createJobsByNextLink starts with jobCount := 0,
\* pageNum := 1
GenNavSeed ==
  /\ ~crashed
  /\ gpc = "navSeed"
  /\ \/ /\ gpc' = IF strategy = CrawlByNextLink THEN "page" ELSE "count"
        /\ pageNum' = 1
        /\ jobCount' = 0
        /\ UNCHANGED <<seedsLeft, tasks, pageJobCount, retry, procErr,
                       successCount>>
     \/ /\ "browser" \in faults
        /\ ListingFailed
  /\ UNCHANGED <<storeVars, envVars, execVars, histVars, fnVars, cfgVars, revealVars, gresult,
                 linksLeft, text, totalCount, pageCount, page, pages>>

\* createJobsByNextLink, top of the loop: CurrentURL, ExtractAttribute of the
\* detail links, then one eg.Go per link
GenPage ==
  /\ ~crashed
  /\ gpc = "page"
  /\ \/ \E links \in LinkSeqs(linksLeft) :
          /\ tasks' = [i \in 1..Len(links) |-> Task(links[i])]
          /\ linksLeft' = linksLeft - Len(links)
          /\ pageJobCount' = 0
          /\ gpc' = "wait"
          /\ UNCHANGED <<seedsLeft, pageNum, jobCount>>
     \/ /\ "browser" \in faults
        /\ NextSeed
        /\ UNCHANGED linksLeft
  /\ UNCHANGED <<storeVars, envVars, execVars, histVars, fnVars, cfgVars, revealVars, totVars, gresult>>

\* mutant of TaskCheck: the goroutine does not look at childCtx
TaskCheck_NoCtx(i) ==
  /\ ~crashed
  /\ gpc = "wait"
  /\ i \in 1..Len(tasks)
  /\ tasks[i].pc = "start"
  /\ LET t == tasks[i] IN
     IF t.link = 0
     THEN \* resolveURL or NewCrawlJob failed: warn, return nil
          /\ tasks' = [tasks EXCEPT ![i] = [t EXCEPT !.pc = "done"]]
          /\ UNCHANGED <<pageJobCount>>
     ELSE /\ HasFreshId
          /\ \/ /\ RepoExists(store, NewCrawlJob(t.link))
                /\ \* skipped, createCrawlJobByURL returns nil
                   tasks' = [tasks EXCEPT ![i] = [t EXCEPT !.pc = "done"]]
                /\ pageJobCount' = pageJobCount + 1
             \/ /\ ~RepoExists(store, NewCrawlJob(t.link))
                /\ tasks' = [tasks EXCEPT ![i] =
                               [t EXCEPT !.pc = "save", !.job = NewCrawlJob(t.link)]]
                /\ UNCHANGED <<pageJobCount>>
             \/ /\ StoreMayFail
                /\ tasks' = [tasks EXCEPT ![i] = [t EXCEPT !.pc = "done"]]
                /\ UNCHANGED pageJobCount
  /\ UNCHANGED <<storeVars, envVars, execVars, histVars, fnVars, cfgVars, revealVars, totVars,
                 gpc, seedsLeft, pageNum, jobCount, gresult, linksLeft>>

\* a goroutine of the errgroup: the select on childCtx.Done(), then
\* resolveURL and createCrawlJobByURL up to repo.Exists
TaskCheck(i) ==
  /\ ~crashed
  /\ gpc = "wait"
  /\ i \in 1..Len(tasks)
  /\ tasks[i].pc = "start"
  /\ LET t == tasks[i] IN
     IF cancelled
     THEN \* return childCtx.Err()
          /\ tasks' = [tasks EXCEPT ![i] = [t EXCEPT !.pc = "done", !.err = TRUE]]
          /\ UNCHANGED <<pageJobCount>>
     ELSE IF t.link = 0
     THEN \* resolveURL or NewCrawlJob failed: warn, return nil
          /\ tasks' = [tasks EXCEPT ![i] = [t EXCEPT !.pc = "done"]]
          /\ UNCHANGED <<pageJobCount>>
     ELSE /\ HasFreshId
          /\ \/ /\ RepoExists(store, NewCrawlJob(t.link))
                /\ \* skipped, createCrawlJobByURL returns nil
                   tasks' = [tasks EXCEPT ![i] = [t EXCEPT !.pc = "done"]]
                /\ pageJobCount' = pageJobCount + 1
             \/ /\ ~RepoExists(store, NewCrawlJob(t.link))
                /\ tasks' = [tasks EXCEPT ![i] =
                               [t EXCEPT !.pc = "save", !.job = NewCrawlJob(t.link)]]
                /\ UNCHANGED <<pageJobCount>>
             \/ /\ StoreMayFail
                /\ tasks' = [tasks EXCEPT ![i] = [t EXCEPT !.pc = "done"]]
                /\ UNCHANGED pageJobCount
  /\ UNCHANGED <<storeVars, envVars, execVars, histVars, fnVars, cfgVars, revealVars, totVars,
                 gpc, seedsLeft, pageNum, jobCount, gresult, linksLeft>>

\* mutant of TaskSave: Save returns nil and has written nothing
TaskSave_Lost(i) ==
  /\ ~crashed
  /\ gpc = "wait"
  /\ i \in 1..Len(tasks)
  /\ tasks[i].pc = "save"
  /\ LET t == tasks[i] IN
     \/ /\ store' = store
        /\ tasks' = [tasks EXCEPT ![i] = [t EXCEPT !.pc = "done"]]
        /\ pageJobCount' = pageJobCount + 1
     \/ /\ StoreMayFail
        /\ tasks' = [tasks EXCEPT ![i] = [t EXCEPT !.pc = "done", !.job = Nil]]
        /\ UNCHANGED <<store, pageJobCount>>
  /\ UNCHANGED <<html, envVars, execVars, histVars, fnVars, cfgVars, revealVars, totVars,
                 gpc, seedsLeft, pageNum, jobCount, gresult, linksLeft>>

\* createCrawlJobByURL after Exists returned false: repo.Save(ctx, job),
\* then atomic.AddInt32(&pageJobCount, 1)
TaskSave(i) ==
  /\ ~crashed
  /\ gpc = "wait"
  /\ i \in 1..Len(tasks)
  /\ tasks[i].pc = "save"
  /\ LET t == tasks[i] IN
     \/ /\ store' = RepoSave(store, t.job)
        /\ tasks' = [tasks EXCEPT ![i] = [t EXCEPT !.pc = "done"]]
        /\ pageJobCount' = pageJobCount + 1
     \/ /\ StoreMayFail
        /\ tasks' = [tasks EXCEPT ![i] = [t EXCEPT !.pc = "done", !.job = Nil]]
        /\ UNCHANGED <<store, pageJobCount>>
  /\ UNCHANGED <<html, envVars, execVars, histVars, fnVars, cfgVars, revealVars, totVars,
                 gpc, seedsLeft, pageNum, jobCount, gresult, linksLeft>>

\* mutant of GenWait: the loop goes on without eg.Wait
GenWait_NoWait ==
  /\ ~crashed
  /\ gpc = "wait"
  /\ IF \E i \in 1..Len(tasks) : tasks[i].err
     THEN NextSeed
     ELSE /\ jobCount' = jobCount + pageJobCount
          /\ pageJobCount' = 0
          /\ gpc' = "exists"
          /\ UNCHANGED <<seedsLeft, pageNum, tasks>>
  /\ UNCHANGED <<storeVars, envVars, execVars, histVars, fnVars, cfgVars, revealVars,
                 totVars, gresult, linksLeft>>

\* eg.Wait(): an error of a goroutine ends createJobsByNextLink with an error;
\* else jobCount += int(pageJobCount)
GenWait ==
  /\ ~crashed
  /\ gpc = "wait"
  /\ \A i \in 1..Len(tasks) : tasks[i].pc = "done"
  /\ IF \E i \in 1..Len(tasks) : tasks[i].err
     THEN NextSeed
     ELSE /\ jobCount' = jobCount + pageJobCount
          /\ pageJobCount' = 0
          /\ gpc' = "exists"
          /\ UNCHANGED <<seedsLeft, pageNum, tasks>>
  /\ UNCHANGED <<storeVars, envVars, execVars, histVars, fnVars, cfgVars, revealVars,
                 totVars, gresult, linksLeft>>

\* client.Exists(NextPageLocator)
GenExists ==
  /\ ~crashed
  /\ gpc = "exists"
  /\ \/ \* the control is there
        /\ gpc' = "click"
        /\ UNCHANGED <<seedsLeft, tasks, pageNum, pageJobCount, jobCount>>
     \/ \* the control is absent: return jobCount, nil
        /\ gpc' = "sleep"
        /\ UNCHANGED <<seedsLeft, tasks, pageNum, pageJobCount, jobCount>>
     \/ /\ "browser" \in faults
        /\ NextSeed
  /\ UNCHANGED <<storeVars, envVars, execVars, histVars, fnVars, cfgVars, revealVars,
                 totVars, gresult, linksLeft>>

\* mutant of GenClick: the strategy returns after MaxPages pages
GenClick_Capped ==
  /\ ~crashed
  /\ gpc = "click"
  /\ \/ /\ pageNum' = IF pageNum < MaxPages THEN pageNum + 1 ELSE pageNum
        /\ gpc' = IF pageNum < MaxPages THEN "page" ELSE "sleep"
        /\ UNCHANGED <<seedsLeft, tasks, pageJobCount, jobCount>>
     \/ /\ "browser" \in faults
        /\ NextSeed
  /\ UNCHANGED <<storeVars, envVars, execVars, histVars, fnVars, cfgVars, revealVars,
                 totVars, gresult, linksLeft>>

\* client.Click(NextPageLocator); pageNum++.  The loop has no bound on the
\* pages; the counter, which only the log lines read, stops at MaxPages.
GenClick ==
  /\ ~crashed
  /\ gpc = "click"
  /\ \/ /\ pageNum' = IF pageNum < MaxPages THEN pageNum + 1 ELSE pageNum
        /\ gpc' = "page"
        /\ UNCHANGED <<seedsLeft, tasks, pageJobCount, jobCount>>
     \/ /\ "browser" \in faults
        /\ NextSeed
  /\ UNCHANGED <<storeVars, envVars, execVars, histVars, fnVars, cfgVars, revealVars,
                 totVars, gresult, linksLeft>>

\* processListLink returned nil: the count is logged, then
\* time.Sleep(CrawlSleepSeconds) and the next list link
GenSleep ==
  /\ ~crashed
  /\ gvariant = "Generate"
  /\ gpc = "sleep"
  /\ NextSeed
  /\ UNCHANGED <<storeVars, envVars, execVars, histVars, fnVars, cfgVars, revealVars,
                 totVars, gresult, linksLeft>>

NextGen ==
  \/ GenStart
  \/ GenSeed
  \/ GenNavSeed
  \/ GenPage
  \/ \E i \in 1..MaxLinks : TaskCheck(i)
  \/ \E i \in 1..MaxLinks : TaskSave(i)
  \/ GenWait
  \/ GenExists
  \/ GenClick
  \/ GenSleep
  \/ Cancel

SpecGen == InitGen /\ [][NextGen]_vars

\* ------------------------------------------------- extractTotalCount alone
\* the empty queue
EmptyStore == [k \in KeySpace |-> Nil]

\* strategy: total_count
CfgTotalCount ==
  /\ tabClick = FALSE
  /\ strategy = CrawlByTotalCount
  /\ perPage \in 0..MaxPerPage
  /\ start \in 0..MaxStart

\* any text of the total-count element
InitParse ==
  /\ store = EmptyStore
  /\ html = [i \in Ids |-> 0]
  /\ down = {}
  /\ faults = {}
  /\ cancelled = FALSE
  /\ crashed = FALSE
  /\ ExecIdle
  /\ HistInit
  /\ NextLinkIdle
  /\ TotalIdle
  /\ gvariant \in {"Generate", "Run"}
  /\ strategy = CrawlByTotalCount
  /\ perPage = 1
  /\ start = 1
  /\ retryCount = 0
  /\ tabClick = FALSE
  /\ text \in Texts(MaxTextLen)

\* totalCount, err := u.extractTotalCount(texts[0])
ParseText ==
  /\ gpc = "idle"
  /\ LET r == extractTotalCount(text) IN
     /\ totalCount' = r.n
     /\ gresult' = IF r.ok THEN "nil" ELSE "error"
  /\ gpc' = "parsed"
  /\ UNCHANGED <<storeVars, envVars, execVars, histVars, fnVars, cfgVars, revealVars,
                 seedsLeft, pageNum, tasks, pageJobCount, jobCount, linksLeft,
                 text, pageCount, page, pages, retry, procErr, successCount>>

NextParse == ParseText

SpecParse == InitParse /\ [][NextParse]_vars

\* ------------------------------------------------- strategy total_count
\* pageCount := (totalCount + pageSize - 1) / pageSize
PageCountOf(total, pageSize) == TruncDiv(Wrap(total + pageSize - 1), pageSize)

\* buildPaginatedURL and resolveURL: the URL of page p of the listing
PageURL(p) == p + 1

\* number of elements the total-count selector matches: none, one, several
MatchCounts == 0..2

\* texts of the first element: a count followed by a unit, or no count
ListingTexts ==
  {Itoa(n) \o <<"x">> : n \in 0..MaxInt} \cup {<<"x">>, <<",", "x">>}

\* the pages of the listing have URLs in the model
Fits(t) ==
  LET r == extractTotalCount(t) IN
  (r.ok /\ perPage >= 1) => PageCountOf(r.n, perPage) <= NumURLs - 1

\* the queue is empty before the first run; Generate does not read
\* retry_count
InitTotal ==
  /\ store = EmptyStore
  /\ html = [i \in Ids |-> 0]
  /\ down = {}
  /\ faults \in {{}, {"store", "browser"}}
  /\ cancelled = FALSE
  /\ crashed = FALSE
  /\ ExecIdle
  /\ HistInit
  /\ GenIdle
  /\ CfgTotalCount
  /\ gvariant \in {"Generate", "Run"}
  /\ retryCount \in (IF gvariant = "Run" THEN 0..MaxRetry ELSE {0})

\* PrefectureCrawlerUseCase.Run, for i, prefectureLink := range
\* prefectureLinks: resolveURL, Sleep, WithTimeout, retry := 0; after the
\* loop the error when no seed was counted
RunSeed ==
  /\ ~crashed
  /\ gvariant = "Run"
  /\ gpc = "seed"
  /\ IF seedsLeft = 0
     THEN /\ gpc' = "done"
          /\ gresult' = IF successCount = 0 THEN "error" ELSE "nil"
          /\ UNCHANGED <<seedsLeft, tasks, pageNum, pageJobCount, jobCount,
                         retry, procErr>>
     ELSE /\ \/ /\ gpc' = "retry"
                /\ retry' = 0
                /\ procErr' = FALSE
                /\ UNCHANGED <<seedsLeft, tasks, pageNum, pageJobCount, jobCount>>
             \/ \* the link does not parse: logged, continue
                /\ NextSeed
                /\ UNCHANGED <<retry, procErr>>
          /\ UNCHANGED gresult
  /\ text' = <<>>
  /\ UNCHANGED <<storeVars, envVars, execVars, histVars, fnVars, cfgVars, revealVars, linksLeft,
                 totalCount, pageCount, page, pages, successCount>>

\* Run, the condition of for retry := 0; retry < RetryCount; retry++, and
\* after the loop: continue on procErr != nil, else successCount++
RunRetry ==
  /\ ~crashed
  /\ gvariant = "Run"
  /\ gpc = "retry"
  /\ IF retry < retryCount
     THEN /\ gpc' = "navSeed"
          /\ UNCHANGED <<seedsLeft, tasks, pageNum, pageJobCount, jobCount,
                         successCount>>
     ELSE /\ NextSeed
          /\ successCount' = IF procErr THEN successCount ELSE successCount + 1
  /\ text' = <<>>
  /\ UNCHANGED <<storeVars, envVars, execVars, histVars, fnVars, cfgVars, revealVars, gresult,
                 linksLeft, totalCount, pageCount, page, pages, retry,
                 procErr>>

\* createJobsByTotalCount returned jobCount, nil.  processListLink logs the
\* count and GenerateCrawlJob sleeps; in Run procErr is nil, the loop of the
\* retries breaks and the seed is counted.
ListingDone ==
  IF gvariant = "Generate"
  THEN /\ gpc' = "sleep"
       /\ UNCHANGED <<seedsLeft, tasks, pageNum, pageJobCount, jobCount,
                      retry, procErr, successCount>>
  ELSE /\ NextSeed
       /\ procErr' = FALSE
       /\ successCount' = successCount + 1
       /\ UNCHANGED retry

\* the locals of createJobsByTotalCount are gone with its return
TotalLocalsGone ==
  /\ text' = <<>>
  /\ totalCount' = 0
  /\ pageCount' = 0
  /\ page' = 0
  /\ pages' = {}

\* createJobsByTotalCount: client.ExtractText(TotalCountSelector) and the
\* number of texts
TotalText ==
  /\ ~crashed
  /\ gpc = "count"
  /\ \/ /\ "browser" \in faults
        /\ ListingFailed
        /\ UNCHANGED text
     \/ \E k \in MatchCounts :
          IF (IF gvariant = "Generate" THEN k = 0 ELSE k # 1)
          THEN /\ ListingFailed
               /\ UNCHANGED text
          ELSE \E t \in ListingTexts :
                 /\ Fits(t)
                 /\ text' = t
                 /\ gpc' = "parse"
                 /\ UNCHANGED <<seedsLeft, tasks, pageNum, pageJobCount,
                                jobCount, retry, procErr, successCount>>
  /\ UNCHANGED <<storeVars, envVars, execVars, histVars, fnVars, cfgVars, revealVars, linksLeft,
                 gresult, totalCount, pageCount, page, pages>>

\* createJobsByTotalCount up to its loop: extractTotalCount(texts[0]), the
\* page size, pageCount, CurrentURL.  The old function has no check of the
\* page size.
TotalCount ==
  /\ ~crashed
  /\ gpc = "parse"
  /\ LET r == extractTotalCount(text) IN
     IF ~r.ok \/ (perPage = 0 /\ gvariant = "Generate")
     THEN /\ ListingFailed
          /\ UNCHANGED <<gresult, text, totalCount, pageCount, page, pages>>
     ELSE IF perPage = 0
     THEN \* integer divide by zero: the goroutine panics
          /\ gpc' = "panic"
          /\ gresult' = "panic"
          /\ totalCount' = r.n
          /\ UNCHANGED <<seedsLeft, tasks, pageNum, pageJobCount, jobCount,
                         text, pageCount, page, pages, retry, procErr,
                         successCount>>
     ELSE \/ /\ totalCount' = r.n
             /\ pageCount' = PageCountOf(r.n, perPage)
             /\ page' = start
             /\ pages' = {}
             /\ jobCount' = 0
             /\ gpc' = "pageLoop"
             /\ UNCHANGED <<gresult, text, seedsLeft, tasks, pageNum,
                            pageJobCount, retry, procErr, successCount>>
          \/ \* CurrentURL failed
             /\ "browser" \in faults
             /\ ListingFailed
             /\ UNCHANGED <<gresult, text, totalCount, pageCount, page, pages>>
  /\ UNCHANGED <<storeVars, envVars, execVars, histVars, fnVars, cfgVars, revealVars, linksLeft>>

\* createJobsByTotalCount, for page := Start; page <= pageCount; page++:
\* buildPaginatedURL, resolveURL, createCrawlJobByURL, jobCount++.  The old
\* createCrawlJobByURL saves without asking Exists.
TotalPage ==
  /\ ~crashed
  /\ gpc = "pageLoop"
  /\ IF page > pageCount
     THEN /\ ListingDone
          /\ TotalLocalsGone
          /\ UNCHANGED store
     ELSE /\ HasFreshId
          /\ page' = page + 1
          /\ gpc' = "pageLoop"
          /\ LET job == NewCrawlJob(PageURL(page)) IN
             \/ /\ gvariant = "Generate"
                /\ RepoExists(store, job)
                /\ UNCHANGED store
                /\ jobCount' = jobCount + 1
                /\ pages' = pages \cup {page}
             \/ /\ gvariant = "Generate" => ~RepoExists(store, job)
                /\ store' = RepoSave(store, job)
                /\ jobCount' = jobCount + 1
                /\ pages' = pages \cup {page}
             \/ \* Exists or Save failed: warn, continue
                /\ StoreMayFail
                /\ UNCHANGED <<store, jobCount, pages>>
          /\ UNCHANGED <<seedsLeft, tasks, pageNum, pageJobCount, retry,
                         procErr, successCount, text, totalCount, pageCount>>
  /\ UNCHANGED <<html, envVars, execVars, histVars, fnVars, cfgVars, revealVars, gresult,
                 linksLeft>>

NextTotal ==
  \/ GenStart
  \/ GenSeed
  \/ RunSeed
  \/ RunRetry
  \/ GenNavSeed
  \/ TotalText
  \/ TotalCount
  \/ TotalPage
  \/ GenSleep

SpecTotal == InitTotal /\ [][NextTotal]_vars

\* the executor and the stream goroutine keep running
FairExec ==
  /\ WF_vars(StreamScan)
  /\ WF_vars(StreamGet)
  /\ WF_vars(StreamNext)
  /\ WF_vars(ExecRecv)
  /\ WF_vars(ExecFind)
  /\ WF_vars(ExecNavigate)
  /\ WF_vars(ExecGetHTML)
  /\ WF_vars(ExecSaveHTML)
  /\ WF_vars(ExecDelete)
  /\ WF_vars(ExecSaveSuccess)
  /\ WF_vars(ExecSaveFailed)
  /\ WF_vars(ExecSleep)

\* a run in which the process is not killed, the context stays live and the
\* store and the artifact sink work; sites may still refuse navigation
InitExecLive == InitExec /\ faults = {}

NextExecLive ==
  \/ \E v \in {"Run", "Execute"} : ExecStart(v)
  \/ StreamScan
  \/ StreamGet
  \/ StreamNext
  \/ ExecRecv
  \/ ExecFind
  \/ ExecNavigate
  \/ ExecGetHTML
  \/ ExecSaveHTML
  \/ ExecDelete
  \/ ExecSaveSuccess
  \/ ExecSaveFailed
  \/ ExecSleep
  \/ \E u \in URLs : Recover(u)

SpecExecLive == InitExecLive /\ [][NextExecLive]_vars /\ FairExec

\* =============================================================== claims
Pending(u) == HasRecord(store, CrawlJobStatusPending, u)
Success(u) == HasRecord(store, CrawlJobStatusSuccess, u)
Failed(u) == HasRecord(store, CrawlJobStatusFailed, u)
NoRecord(st, u) == \A s \in Statuses : ~HasRecord(st, s, u)

\* the inner loop over a batch has ended: ExecuteCrawlJob returned, or Run
\* reached the pause after its batch
BatchEnd == epc \in {"done", "sleep"}

\* a goroutine of the page carries out repo.Exists for its link in this step
TaskChecks(i) ==
  /\ i <= Len(tasks)
  /\ Len(tasks') = Len(tasks)
  /\ tasks[i].pc = "start"
  /\ tasks'[i].pc # "start"
  /\ tasks[i].link # 0
  /\ ~cancelled

\* C1: a submission that returns nil leaves a PENDING record for its url, and
\* a submission of a url that has a PENDING record finds it with Exists and
\* issues no Save: the store, and with it the one PENDING record of the url,
\* stays as it is.  So of two submissions of a url in a row the second saves
\* nothing and one PENDING record is there.
C1_IdempotentEnqueue ==
  [][\A i \in 1..MaxLinks :
       /\ (i <= Len(tasks) /\ Len(tasks') = Len(tasks)
             /\ pageJobCount' = pageJobCount + 1 /\ tasks'[i] # tasks[i])
          => HasRecord(store', CrawlJobStatusPending, tasks[i].link)
       /\ (TaskChecks(i) /\ Pending(tasks[i].link))
          => /\ store' = store
             /\ tasks'[i].pc = "done"]_vars

C1_Witness ==
  /\ gpc = "wait"
  /\ Len(tasks) = 2
  /\ tasks[1].link = tasks[2].link
  /\ tasks[1].link # 0
  /\ tasks[1].pc = "done" /\ tasks[2].pc = "done"
  /\ pageJobCount = 2
  /\ \E i, j \in 1..2 :
       /\ tasks[i].job # Nil
       /\ store[generatePendingJobKey(tasks[i].link)] = tasks[i].job
       /\ tasks[j].job = Nil

\* C2 (as stated): after every successful transition of a job the url has no
\* PENDING record and exactly one terminal record, SUCCESS or FAILED, not both.
C2_StatusExclusivity ==
  [][(epc = "saveSuccess" /\ store' # store) =>
       LET u == cur.url IN
         /\ ~HasRecord(store', CrawlJobStatusPending, u)
         /\ HasRecord(store', CrawlJobStatusSuccess, u)
              # HasRecord(store', CrawlJobStatusFailed, u)]_vars

\* C3: when the loop over a batch ends, with the store working and the context
\* live, every job of the batch whose own processing did not fail has its
\* SUCCESS record, whatever jobs failed before or after it, and no error is
\* returned.
C3_FailureIsolation ==
  (BatchEnd /\ "store" \notin faults /\ ~cancelled) =>
     /\ \A u \in batch \ passFailed : Success(u) /\ ~Pending(u)
     /\ eresult # "error"

C3_Witness ==
  /\ epc = "done"
  /\ variant = "Execute"
  /\ "store" \notin faults
  /\ ~cancelled
  /\ \E a, b, c \in batch :
       /\ a < b /\ b < c
       /\ b \in passFailed
       /\ Success(a) /\ Success(c)

\* C4 (as stated): whenever the processing of a job fails in navigation, the
\* executor inserts a FAILED record for the url and leaves its PENDING record.
C4_FailedRecorded ==
  (BatchEnd /\ faults = {} /\ ~cancelled) =>
     \A u \in passFailed : Failed(u) /\ Pending(u)

\* C5: a PENDING record is deleted and a SUCCESS record is written only for
\* the job in hand and only after SaveHTML stored that job's markup under
\* its id in this processing.
C5_OnlyAfterArtifact ==
  [][\A u \in URLs :
       (\/ HasRecord(store, CrawlJobStatusPending, u)
             /\ ~HasRecord(store', CrawlJobStatusPending, u)
        \/ store'[generateSuccessJobKey(u)] # store[generateSuccessJobKey(u)])
       => (artifactDone /\ cur.url = u /\ html[cur.id] = u)]_vars

C5_Witness ==
  \E u \in URLs : Success(u) /\ ~Pending(u) /\ artifactDone /\ "browser" \in faults

C7_AtLeastOnce ==
  \A u \in URLs :
    [](( /\ epc # "idle"
         /\ u \in startPending
         /\ u \notin down
         /\ u \notin passFailed)
       => <>(Success(u) /\ ~Pending(u) /\ \E i \in Ids : html[i] = u))

C7_Witness ==
  \E u, w \in startPending :
    /\ u # w
    /\ w \in passFailed
    /\ Success(u) /\ ~Pending(u)
    /\ \E i \in Ids : html[i] = u

\* C8 (as stated): the generator writes a PENDING record for a url only if the
\* url has no record under any status key.
C8_NoReenqueue ==
  [][\A u \in Targets :
       (/\ store'[generatePendingJobKey(u)] # store[generatePendingJobKey(u)]
        /\ store'[generatePendingJobKey(u)] # Nil)
       => NoRecord(store, u)]_vars

C10_CancelStopsLoop ==
  [][cancelled =>
       /\ (gpc = "seed" => gpc' # "navSeed")
       /\ (gpc = "exists" => gpc' # "click")]_vars

\* C11: once the context is cancelled, a submission goroutine that has not
\* passed its select on childCtx.Done() returns the context's error and writes
\* nothing; a write under a cancelled context is the Save of a submission that
\* was in flight.
C11_CancelStopsTasks ==
  [][cancelled =>
       /\ \A i \in 1..MaxLinks :
            (/\ i <= Len(tasks)
             /\ Len(tasks') = Len(tasks)
             /\ tasks[i].pc = "start"
             /\ tasks'[i] # tasks[i])
            => (tasks'[i].pc = "done" /\ tasks'[i].err /\ store' = store)
       /\ (gpc = "wait" /\ store' # store)
            => \E i \in 1..Len(tasks) :
                 tasks[i].pc = "save" /\ tasks'[i].pc = "done"]_vars

C11_Witness ==
  /\ cancelled
  /\ gpc = "wait"
  /\ \E i, j \in 1..Len(tasks) :
       /\ tasks[i].pc = "done" /\ tasks[i].err
       /\ tasks[j].pc = "save"

\* a submission goroutine of the page has not returned
TaskRunning == \E i \in 1..Len(tasks) : tasks[i].pc # "done"

\* a submission goroutine takes a step
TaskSteps ==
  \E i \in 1..Len(tasks) :
    tasks[i].pc # "done" /\ Len(tasks') = Len(tasks) /\ tasks'[i] # tasks[i]

\* C12: while a submission goroutine is running the use case is in eg.Wait,
\* so no automation-surface operation (Navigate, CurrentURL,
\* ExtractAttribute, Exists, Click) is issued, and a step of a goroutine
\* touches the queue store and the page's counter only.
C12_SingleThreadedSurface ==
  /\ [](TaskRunning => gpc = "wait")
  /\ [][TaskSteps => UNCHANGED <<gpc, seedsLeft, pageNum, jobCount, html,
                                 linksLeft, gresult>>]_vars

C12_Witness ==
  /\ gpc = "click"
  /\ Len(tasks) = 2
  /\ ~TaskRunning
  /\ \E i \in 1..2 : tasks[i].job # Nil /\ Pending(tasks[i].link)

\* C14: with an empty seed set GenerateCrawlJob returns an error at once: no
\* list link is taken, no page is processed, nothing is written.
C14_EmptySeedsFailFast ==
  /\ [][(gpc = "idle" /\ gpc' # "idle" /\ seedsLeft' = 0)
          => (gpc' = "done" /\ gresult' = "error" /\ store' = store)]_vars
  /\ [](gresult = "error"
          => /\ gpc = "done"
             /\ seedsLeft = 0
             /\ tasks = <<>>
             /\ jobCount = 0
             /\ linksLeft = MaxLinks)

C14_Witness == gpc = "done" /\ gresult = "error"

\* C15: when the next-page control is absent on the first listing page,
\* createJobsByNextLink returns nil without a Click; every parsable detail
\* link of that page was submitted and has its PENDING record, they are what
\* the count tells, and every write of the run is the Save of a link of the
\* page in hand.
C15_NextLinkTermination ==
  /\ []((gpc = "sleep" /\ pageNum = 1 /\ faults = {} /\ ~cancelled)
          => /\ \A i \in 1..Len(tasks) :
                  /\ tasks[i].pc = "done"
                  /\ tasks[i].link # 0 => Pending(tasks[i].link)
             /\ jobCount = Cardinality({i \in 1..Len(tasks) : tasks[i].link # 0}))
  /\ [][(GenRunning /\ store' # store)
          => \E i \in 1..Len(tasks) :
               /\ tasks[i].pc = "save"
               /\ tasks[i].job.url = tasks[i].link
               /\ store' = [store EXCEPT
                              ![generatePendingJobKey(tasks[i].link)] = tasks[i].job]]_vars
  /\ [][(gpc = "exists" /\ gpc' = "sleep")
          => UNCHANGED <<store, pageNum, tasks, jobCount>>]_vars

C15_Witness ==
  /\ gpc = "sleep"
  /\ pageNum = 1
  /\ faults = {}
  /\ ~cancelled
  /\ Len(tasks) = 2
  /\ tasks[1].link # 0
  /\ tasks[2].link # tasks[1].link
  /\ jobCount = 2

\* createJobsByNextLink is running
InStrategy == gpc \in {"page", "wait", "exists", "click"}

\* C16: with every automation-surface operation succeeding and the context
\* live, createJobsByNextLink returns only by finding the next-page control
\* absent, whatever the number of pages behind it; while the control is
\* there it clicks and takes the next page, without end.
C16_NoPageBound ==
  /\ [][(InStrategy /\ ~InStrategy' /\ faults = {} /\ ~cancelled)
          => (gpc = "exists" /\ gpc' = "sleep")]_vars
  /\ [][(gpc = "click" /\ gpc' # "click" /\ faults = {})
          => gpc' = "page"]_vars

C16_Witness ==
  /\ gpc = "click"
  /\ pageNum = MaxPages
  /\ linksLeft = 0
  /\ jobCount = MaxLinks
  /\ faults = {}
  /\ ~cancelled

\* the text has a digit
HasDigit(t) == \E i \in 1..Len(t) : IsDigit(t[i])

\* the digits of the text, every other character stripped
StripToDigits(t) == SelectSeq(t, IsDigit)

\* C19: for every text with at least one digit, extractTotalCount returns
\* the number read from the digits of the text with every other character
\* stripped (stated for the texts whose number fits int).
C19_TotalCountParse ==
  (/\ gpc = "parsed"
   /\ HasDigit(text)
   /\ DecVal(StripToDigits(text)) <= MaxInt)
  => (gresult = "nil" /\ totalCount = DecVal(StripToDigits(text)))

\* the use case is processing a list link
InListing == gpc \in {"retry", "navSeed", "count", "parse", "pageLoop", "sleep"}

\* C13: a failure while a seed is processed leads on to the next seed, and
\* the run over the seeds does not end with an error (stated for a page
\* size of at least 1).
C13_SeedFailureIsolation ==
  /\ [][(perPage >= 1 /\ InListing /\ ~InListing')
          => (gpc' = "seed" /\ seedsLeft' = seedsLeft - 1)]_vars
  /\ [][(perPage >= 1 /\ gpc = "seed" /\ gpc' = "done")
          => gresult' = "nil"]_vars

\* ceil(a / b) for a >= 0, b >= 1
CeilDiv(a, b) == (a + b - 1) \div b

\* C17: when createJobsByTotalCount leaves its loop and no operation failed,
\* the page indices submitted are those from start through
\* ceil(totalCount / perPage).
C17_PaginationEquivalence ==
  [][(gpc = "pageLoop" /\ gpc' # "pageLoop" /\ faults = {})
       => pages = {p \in start..CeilDiv(totalCount, perPage) : TRUE}]_vars

\* C18: with perPage = 0 createJobsByTotalCount returns an error, and the
\* queue is as it was.
C18_PerPageZeroFailsFast ==
  [][(perPage = 0 /\ gpc = "parse" /\ gpc' # "parse")
       => (gpc' \in {"seed", "retry"} /\ store' = store)]_vars

\* C20: a total-count text without a digit makes createJobsByTotalCount
\* return an error before its loop: nothing is written, no page is
\* submitted, GenerateCrawlJob takes the next list link with its result
\* untouched (Run: the attempt counts as failed), and a list link that is
\* left is taken.
C20_NoDigitsSkipsListing ==
  /\ [][(gpc = "parse" /\ gpc' # "parse" /\ ~HasDigit(text))
          => /\ store' = store
             /\ pages' = {}
             /\ gresult' = gresult
             /\ gvariant = "Generate"
                  => (gpc' = "seed" /\ seedsLeft' = seedsLeft - 1)
             /\ gvariant = "Run" => (gpc' = "retry" /\ procErr')]_vars
  /\ [][(gpc = "seed" /\ seedsLeft > 0 /\ gpc' # "seed")
          => gpc' \in {"navSeed", "retry"}]_vars

C20_Witness ==
  /\ gvariant = "Generate"
  /\ gpc = "seed"
  /\ seedsLeft = 1
  /\ text = <<"x">>
  /\ store = EmptyStore
  /\ faults = {}
  /\ perPage >= 1

\* the goroutine of FindListByStatusStream has returned and closed the channel
StreamClosed == spc = "closed"

\* an element of the stream carries a job or an error, never both or neither
WellFormedElement(e) == e.err <=> (e.job = Nil)

\* C25: while the context is live and the process runs, every key of a SCAN reply gives exactly
\* one element on the channel, a job or an error; a record that cannot be
\* read gives an error element and the key loop goes on with the next key;
\* nothing is sent after the channel is closed, and the channel is closed
\* only when no key of the reply is left.
C25_OneElementPerKey ==
  /\ [][(spc = "get" /\ keys # <<>> /\ keys' # keys /\ ~cancelled /\ ~crashed')
          => /\ keys' = Tail(keys)
             /\ Len(resultCh') = Len(resultCh) + 1
             /\ SubSeq(resultCh', 1, Len(resultCh)) = resultCh
             /\ WellFormedElement(resultCh'[Len(resultCh')])
             /\ (PendingJob(store, Head(keys)) = Nil
                   => resultCh'[Len(resultCh')].err)
             /\ spc' = "get"]_vars
  /\ [][(StreamClosed /\ spc' = "closed")
          => \/ resultCh' = resultCh
             \/ resultCh # <<>> /\ resultCh' = Tail(resultCh)]_vars
  /\ []((StreamClosed /\ ~cancelled) => keys = <<>>)

C25_Witness ==
  /\ Len(resultCh) = 2
  /\ resultCh[1].err
  /\ ~resultCh[2].err
  /\ spc = "get"
  /\ ~cancelled

\* C26: a SCAN error sends one error element and closes the channel, nothing
\* is sent afterwards, and ExecuteCrawlJob, once the closed channel is empty,
\* returns without another job; in Run an error of FindListByStatus returns
\* the error without a job processed.
C26_ScanErrorAbortsPass ==
  /\ [][(spc = "scan" /\ resultCh' # resultCh /\ spc' # "idle"
           /\ Len(resultCh') > Len(resultCh))
          => /\ resultCh' = Append(resultCh, [job |-> Nil, err |-> TRUE])
             /\ spc' = "closed"]_vars
  /\ [][(StreamClosed /\ spc' = "closed")
          => Len(resultCh') <= Len(resultCh)]_vars
  /\ [][(StreamClosed /\ resultCh = <<>> /\ epc = "recv" /\ epc' # "recv")
          => epc' \in {"done", "crashed"}]_vars
  /\ [][(epc = "find" /\ eresult' = "error")
          => epc' = "done" /\ cur' = cur /\ store' = store]_vars

C26_Witness ==
  /\ variant = "Execute"
  /\ epc = "done"
  /\ StreamClosed
  /\ ~cancelled
  /\ cursor < NumURLs
  /\ \E u \in (cursor + 1)..NumURLs : Pending(u)

\* the SCAN loop ended because the cursor came back to its start
EnumerationComplete == StreamClosed /\ cursor = NumURLs /\ ~cancelled

\* C27: when the enumeration has run to its end with every read of a record
\* successful, every url whose PENDING record was there at the start and is
\* still there was sent as a job, whatever the executor deleted and inserted
\* in between; every job on the channel comes from a PENDING record.
C27_EnumerationUnderChange ==
  /\ (EnumerationComplete /\ variant = "Execute" /\ "store" \notin faults)
       => \A u \in startPending : Pending(u) => u \in delivered
  /\ \A i \in 1..Len(resultCh) :
       ~resultCh[i].err => resultCh[i].job.status = CrawlJobStatusPending

C27_Witness ==
  /\ EnumerationComplete
  /\ variant = "Execute"
  /\ "store" \notin faults
  /\ \E u, w \in startPending :
       /\ Success(u) /\ ~Pending(u)
       /\ Pending(w) /\ w \in delivered /\ w \in passFailed

\* ------------------------------------------------- the repository alone
\* the crawler is at rest with an empty store: the state in which a function
\* or a method is called on its own
AtRest ==
  /\ store = EmptyStore
  /\ html = [i \in Ids |-> 0]
  /\ down = {}
  /\ cancelled = FALSE
  /\ crashed = FALSE
  /\ ExecIdle
  /\ HistInit
  /\ NextLinkLocals
  /\ text = <<>>
  /\ TotalIdle
  /\ CfgNextLink

\* the jobs the callers hand to Save, Delete and Exists
StoreJobs ==
  {Job(i, 1, s) : i \in {1, 2}, s \in Statuses}
    \cup {Job(i, 2, CrawlJobStatusPending) : i \in {1, 2}}

InitStoreOps ==
  /\ AtRest
  /\ faults \in {{}, {"store"}}
  /\ fn = "none"
  /\ arg = Nil
  /\ res = NoRes
  /\ lastOp = [k \in KeySpace |-> "none"]

\* what a repository method returns when redis answers with an error
StoreError == [ok |-> FALSE, val |-> FALSE]

\* a call of redis fails: the method returns the error, the store is as it was
StoreCallFails(name, job) ==
  /\ "store" \in faults
  /\ fn' = name
  /\ arg' = job
  /\ res' = StoreError
  /\ UNCHANGED <<store, lastOp>>

\* crawlJobClient.Save(job)
StoreSave(job) ==
  /\ \/ /\ store' = RepoSave(store, job)
        /\ lastOp' = [lastOp EXCEPT ![generateJobKey(job)] = "Save"]
        /\ fn' = "Save"
        /\ arg' = job
        /\ res' = [ok |-> TRUE, val |-> FALSE]
     \/ StoreCallFails("Save", job)
  /\ UNCHANGED <<html, envVars, execVars, histVars, gpc, seedsLeft, pageNum,
                 tasks, pageJobCount, jobCount, gresult, linksLeft, cfgVars, revealVars,
                 totVars>>

\* crawlJobClient.Delete(job)
StoreDelete(job) ==
  /\ \/ /\ store' = RepoDelete(store, job)
        /\ lastOp' = [lastOp EXCEPT ![generateJobKey(job)] = "Delete"]
        /\ fn' = "Delete"
        /\ arg' = job
        /\ res' = [ok |-> TRUE, val |-> FALSE]
     \/ StoreCallFails("Delete", job)
  /\ UNCHANGED <<html, envVars, execVars, histVars, gpc, seedsLeft, pageNum,
                 tasks, pageJobCount, jobCount, gresult, linksLeft, cfgVars, revealVars,
                 totVars>>

\* crawlJobClient.Exists(job)
StoreExists(job) ==
  /\ \/ /\ fn' = "Exists"
        /\ arg' = job
        /\ res' = [ok |-> TRUE, val |-> RepoExists(store, job)]
        /\ UNCHANGED <<store, lastOp>>
     \/ StoreCallFails("Exists", job)
  /\ UNCHANGED <<html, envVars, execVars, histVars, gpc, seedsLeft, pageNum,
                 tasks, pageJobCount, jobCount, gresult, linksLeft, cfgVars, revealVars,
                 totVars>>

NextStoreOps ==
  \/ \E job \in StoreJobs : StoreSave(job)
  \/ \E job \in StoreJobs : StoreDelete(job)
  \/ \E job \in StoreJobs : StoreExists(job)

SpecStoreOps == InitStoreOps /\ [][NextStoreOps]_vars

\* C24: after any sequence of Save and Delete calls, Exists(job) is true
\* exactly when the last successful Save or Delete on the key of
\* (job.status, job.url) was a Save; a Save leaves the whole job under its
\* key, a Delete leaves nothing under it, and each leaves every other key as
\* it was; Exists and a failed call change nothing.
C24_MapByStatusAndURL ==
  /\ [](\A job \in StoreJobs :
          RepoExists(store, job) <=> lastOp[generateJobKey(job)] = "Save")
  /\ []((fn = "Exists" /\ res.ok)
          => (res.val <=> lastOp[generateJobKey(arg)] = "Save"))
  /\ [][(fn' = "Save" /\ res'.ok)
          => /\ store'[generateJobKey(arg')] = arg'
             /\ \A k \in KeySpace \ {generateJobKey(arg')} :
                  store'[k] = store[k]]_vars
  /\ [][(fn' = "Delete" /\ res'.ok)
          => /\ store'[generateJobKey(arg')] = Nil
             /\ \A k \in KeySpace \ {generateJobKey(arg')} :
                  store'[k] = store[k]]_vars
  /\ [][(fn' = "Exists" \/ ~res'.ok) => store' = store]_vars

C24_Witness ==
  /\ fn = "Exists"
  /\ res.ok
  /\ ~res.val
  /\ lastOp[generateJobKey(arg)] = "Delete"
  /\ \E s \in Statuses \ {arg.status} :
       /\ store[generateJobKey(Job(0, arg.url, s))] # Nil
       /\ store[generateJobKey(Job(0, arg.url, s))].id # arg.id

\* ------------------------------------------------------ pagination urls
\* A text is a sequence of characters. A url is the record url.Parse makes
\* of an absolute url: Scheme, Host, Path and RawQuery; RawQuery is kept
\* as the sequence of its parts between "&".
SeqsOver(S, n) == UNION {[1..k -> S] : k \in 0..n}

HasChar(t, c) == \E i \in 1..Len(t) : t[i] = c
IndexOf(t, c) == CHOOSE i \in 1..Len(t) : t[i] = c /\ \A j \in 1..(i - 1) : t[j] # c

\* strings.Cut(t, c): the text before and after the first c
CutBefore(t, c) == IF HasChar(t, c) THEN SubSeq(t, 1, IndexOf(t, c) - 1) ELSE t
CutAfter(t, c) == IF HasChar(t, c) THEN SubSeq(t, IndexOf(t, c) + 1, Len(t)) ELSE <<>>

\* url.QueryEscape on the characters of the model: "=" and ";" are escaped
QueryEscape(t) ==
  [i \in 1..Len(t) |-> CASE t[i] = "=" -> "%3D" [] t[i] = ";" -> "%3B" [] OTHER -> t[i]]

\* url.QueryUnescape
QueryUnescape(t) ==
  [i \in 1..Len(t) |-> CASE t[i] = "%3D" -> "=" [] t[i] = "%3B" -> ";" [] OTHER -> t[i]]

\* the parameter a part of a query spells: the key before the first "=", the
\* value after it
Param(seg) ==
  [key |-> QueryUnescape(CutBefore(seg, "=")), val |-> QueryUnescape(CutAfter(seg, "="))]

\* url.URL.Query(): parseQuery with its error dropped; a part that holds a
\* ";" is skipped, and so is an empty part
SkippedByQuery(seg) == HasChar(seg, ";") \/ seg = <<>>
Kept(seg) == ~SkippedByQuery(seg)

RECURSIVE ParamsOf(_)
ParamsOf(segs) ==
  IF segs = <<>> THEN <<>>
  ELSE <<Param(Head(segs))>> \o ParamsOf(Tail(segs))

Query(u) == ParamsOf(SelectSeq(u.query, Kept))

\* url.Values.Del(key)
RECURSIVE Del(_, _)
Del(q, key) ==
  IF q = <<>> THEN <<>>
  ELSE IF Head(q).key = key THEN Del(Tail(q), key)
       ELSE <<Head(q)>> \o Del(Tail(q), key)

\* url.Values.Set(key, value)
Set(q, key, value) == Append(Del(q, key), [key |-> key, val |-> value])

\* the byte order of the characters, for the sort of Encode
ByteOf(c) ==
  CASE c = "." -> 46 [] c = "/" -> 47 [] IsDigit(c) -> 48 + DigitVal(c)
    [] c = ";" -> 59 [] c = "=" -> 61 [] c = "a" -> 97 [] c = "p" -> 112
    [] c = "x" -> 120

LexLess(a, b) ==
  \E i \in 1..Len(b) :
    /\ i <= Len(a) + 1
    /\ \A j \in 1..(i - 1) : a[j] = b[j]
    /\ (i = Len(a) + 1 \/ ByteOf(a[i]) < ByteOf(b[i]))

RECURSIVE SortKeys(_)
SortKeys(S) ==
  IF S = {} THEN <<>>
  ELSE LET m == CHOOSE x \in S : \A y \in S \ {x} : LexLess(x, y)
       IN <<m>> \o SortKeys(S \ {m})

\* the parts of the encoded query for one key, in the order of its values
RECURSIVE EncodeKey(_, _)
EncodeKey(q, key) ==
  IF q = <<>> THEN <<>>
  ELSE IF Head(q).key = key
       THEN <<QueryEscape(key) \o <<"=">> \o QueryEscape(Head(q).val)>>
              \o EncodeKey(Tail(q), key)
       ELSE EncodeKey(Tail(q), key)

RECURSIVE EncodeKeys(_, _)
EncodeKeys(q, ks) ==
  IF ks = <<>> THEN <<>>
  ELSE EncodeKey(q, Head(ks)) \o EncodeKeys(q, Tail(ks))

\* url.Values.Encode(): key=value parts, sorted by key
Encode(q) == EncodeKeys(q, SortKeys({q[i].key : i \in 1..Len(q)}))

\* the parts of a path between its "/"
RECURSIVE SplitSlash(_)
SplitSlash(t) ==
  IF HasChar(t, "/")
  THEN <<CutBefore(t, "/")>> \o SplitSlash(CutAfter(t, "/"))
  ELSE <<t>>

RECURSIVE JoinSlash(_)
JoinSlash(segs) ==
  IF segs = <<>> THEN <<>>
  ELSE IF Len(segs) = 1 THEN Head(segs)
       ELSE Head(segs) \o <<"/">> \o JoinSlash(Tail(segs))

\* path.Clean, element by element: "" and "." are dropped, ".." removes the
\* element before it, or itself at the root
RECURSIVE CleanElems(_, _, _)
CleanElems(segs, stack, rooted) ==
  IF segs = <<>> THEN stack
  ELSE LET s == Head(segs) IN
       CleanElems(Tail(segs),
                  CASE s = <<>> \/ s = <<".">> -> stack
                    [] s = <<".", ".">> ->
                         IF stack # <<>> /\ stack[Len(stack)] # <<".", ".">>
                         THEN SubSeq(stack, 1, Len(stack) - 1)
                         ELSE IF rooted THEN stack ELSE Append(stack, s)
                    [] OTHER -> Append(stack, s),
                  rooted)

Clean(t) ==
  LET rooted == t # <<>> /\ t[1] = "/"
      out == JoinSlash(CleanElems(SplitSlash(t), <<>>, rooted))
  IN IF rooted THEN <<"/">> \o out
     ELSE IF out = <<>> THEN <<".">> ELSE out

\* path.Join(a, b, c): the elements that are not empty, joined with "/",
\* then Clean; "" when every element is empty
Join(a, b, c) ==
  LET elems == SelectSeq(<<a, b, c>>, LAMBDA e : e # <<>>)
  IN IF elems = <<>> THEN <<>> ELSE Clean(JoinSlash(elems))

\* strings.TrimSuffix(t, "/")
TrimSuffix(t) ==
  IF t # <<>> /\ t[Len(t)] = "/" THEN SubSeq(t, 1, Len(t) - 1) ELSE t

\* config.PaginationType
PaginationQuery == "query"
PaginationPath == "path"
PaginationSegment == "segment"
PaginationNone == "none"
PaginationTypes ==
  {PaginationQuery, PaginationPath, PaginationSegment, PaginationNone}

\* cfg.Pagination.ParamIdentifier; cfg.Pagination.PageFormat is "%d", so
\* that fmt.Sprintf(PageFormat, page) is the decimal text of the page
ParamIdentifier == <<"p">>
PageStr(n) == Itoa(n)

URL(p, q) == [scheme |-> "https", host |-> "x", path |-> p, query |-> q]

AllDigits(t) == t # <<>> /\ \A i \in 1..Len(t) : IsDigit(t[i])

\* regexp prefix + `\d+$` on a path: where the match starts, 0 when the
\* path does not end that way
MatchStart(t, prefix) ==
  IF \E i \in 1..Len(t) :
       /\ i + Len(prefix) <= Len(t)
       /\ SubSeq(t, i, i + Len(prefix) - 1) = prefix
       /\ AllDigits(SubSeq(t, i + Len(prefix), Len(t)))
  THEN CHOOSE i \in 1..Len(t) :
         /\ i + Len(prefix) <= Len(t)
         /\ SubSeq(t, i, i + Len(prefix) - 1) = prefix
         /\ AllDigits(SubSeq(t, i + Len(prefix), Len(t)))
         /\ \A j \in 1..(i - 1) :
              ~(/\ SubSeq(t, j, j + Len(prefix) - 1) = prefix
                /\ AllDigits(SubSeq(t, j + Len(prefix), Len(t))))
  ELSE 0

\* re.ReplaceAllString(path, "/")
ReplaceMatch(t, prefix) ==
  IF MatchStart(t, prefix) = 0 THEN t
  ELSE SubSeq(t, 1, MatchStart(t, prefix) - 1) \o <<"/">>

normalizeToPageOneURL(typ, u) ==
  CASE typ = PaginationPath ->
         [u EXCEPT !.path = ReplaceMatch(u.path, <<"/">> \o ParamIdentifier \o <<"/">>)]
    [] typ = PaginationSegment ->
         [u EXCEPT !.path = ReplaceMatch(u.path, <<"/">> \o ParamIdentifier)]
    [] typ = PaginationQuery ->
         [u EXCEPT !.query = Encode(Del(Query(u), ParamIdentifier))]
    [] OTHER -> u

buildPaginatedURL(typ, u, n) ==
  CASE typ = PaginationQuery ->
         [u EXCEPT !.query = Encode(Set(Query(u), ParamIdentifier, Itoa(n)))]
    [] typ = PaginationPath ->
         [u EXCEPT !.path = Join(u.path, ParamIdentifier, PageStr(n))]
    [] typ = PaginationSegment ->
         [u EXCEPT !.path = TrimSuffix(u.path) \o <<"/">> \o ParamIdentifier \o PageStr(n)]
    [] OTHER -> u

\* the paths and the queries of the urls handed to the two functions
PathChars == {"/", "a", ".", "p", "1"}
Paths == {<<>>} \cup {t \in SeqsOver(PathChars, MaxPathLen) : t # <<>> /\ t[1] = "/"}
QueryChars == {"p", "x", "=", "1", ";"}
Segs == SeqsOver(QueryChars, MaxSegLen)
PageSegs == {ParamIdentifier \o <<"=">> \o Itoa(n) : n \in 1..MaxPages}
Queries ==
  {<<>>} \cup {<<s>> : s \in Segs}
    \cup {<<s, t>> : s \in Segs, t \in PageSegs}
    \cup {<<t, s>> : s \in Segs, t \in PageSegs}

InitURL ==
  /\ AtRest
  /\ faults = {}
  /\ fn = "none"
  /\ res = NoRes
  /\ lastOp = <<>>
  /\ \/ arg \in [typ : {PaginationQuery, PaginationNone},
                 url : {URL(<<"/", "a">>, q) : q \in Queries},
                 page : 1..MaxPages]
     \/ arg \in [typ : {PaginationPath, PaginationSegment},
                 url : {URL(p, q) : p \in Paths, q \in {<<>>, <<<<"x", "=", "1">>>>}},
                 page : 0..MaxPages]

\* the other variables of a call of a function on its own
FnFrame ==
  UNCHANGED <<storeVars, envVars, execVars, histVars, gpc, seedsLeft, pageNum,
              tasks, pageJobCount, jobCount, gresult, linksLeft, cfgVars, revealVars,
              totVars, lastOp>>

\* normalizeToPageOneURL(arg.url)
NormalizeURL ==
  /\ fn = "none"
  /\ fn' = "normalizeToPageOneURL"
  /\ res' = [ok |-> TRUE, val |-> normalizeToPageOneURL(arg.typ, arg.url)]
  /\ UNCHANGED arg
  /\ FnFrame

\* buildPaginatedURL(normalized, arg.page) on the url just normalized
BuildNormalized ==
  /\ fn = "normalizeToPageOneURL"
  /\ fn' = "buildPaginatedURL(normalized)"
  /\ res' = [ok |-> TRUE, val |-> buildPaginatedURL(arg.typ, res.val, arg.page)]
  /\ UNCHANGED arg
  /\ FnFrame

\* buildPaginatedURL(arg.url, arg.page)
BuildURL ==
  /\ fn = "none"
  /\ fn' = "buildPaginatedURL"
  /\ res' = [ok |-> TRUE, val |-> buildPaginatedURL(arg.typ, arg.url, arg.page)]
  /\ UNCHANGED arg
  /\ FnFrame

\* normalizeToPageOneURL(built) on the url just built
NormalizeBuilt ==
  /\ fn = "buildPaginatedURL"
  /\ fn' = "normalizeToPageOneURL(built)"
  /\ res' = [ok |-> TRUE, val |-> normalizeToPageOneURL(arg.typ, res.val)]
  /\ UNCHANGED arg
  /\ FnFrame

NextURL == NormalizeURL \/ BuildNormalized \/ BuildURL \/ NormalizeBuilt

SpecURL == InitURL /\ [][NextURL]_vars

\* the parameters of a query: one per part that is not empty
ParamSet(u) ==
  {Param(u.query[i]) : i \in {j \in 1..Len(u.query) : u.query[j] # <<>>}}

\* the query of u holds the pagination parameter with value n
HoldsPage(u, n) ==
  /\ [key |-> ParamIdentifier, val |-> Itoa(n)] \in ParamSet(u)
  /\ \A p \in ParamSet(u) : p.key = ParamIdentifier => p.val = Itoa(n)

\* C21 (as stated): for a url whose query holds the pagination parameter
\* with value n, normalizeToPageOneURL gives the url without that parameter
\* and with every other parameter and its value, and buildPaginatedURL of
\* the normalized url and n gives the scheme, host, path and set of
\* parameters of the url it started from.
C21_QueryRoundTrip ==
  (arg.typ = PaginationQuery /\ HoldsPage(arg.url, arg.page))
    => /\ fn = "normalizeToPageOneURL"
            => /\ ParamSet(res.val)
                    = {p \in ParamSet(arg.url) : p.key # ParamIdentifier}
               /\ res.val.path = arg.url.path
       /\ fn = "buildPaginatedURL(normalized)"
            => /\ ParamSet(res.val) = ParamSet(arg.url)
               /\ res.val.scheme = arg.url.scheme
               /\ res.val.host = arg.url.host
               /\ res.val.path = arg.url.path

\* a page-one url: its path ends in "/"
EndsInSlash(u) == u.path # <<>> /\ u.path[Len(u.path)] = "/"

\* what is appended to the page-one path for page n
PageSuffix(typ, n) ==
  IF typ = PaginationPath THEN ParamIdentifier \o <<"/">> \o Itoa(n)
  ELSE ParamIdentifier \o Itoa(n)

\* C22 (as stated): for a page-one url whose path ends in "/" and a page
\* n >= 0, buildPaginatedURL appends p<n> (segment) or p/<n> (path) to the
\* path, and normalizeToPageOneURL of the built url is the page-one url.
C22_PathInverse ==
  (arg.typ \in {PaginationPath, PaginationSegment} /\ EndsInSlash(arg.url))
    => /\ fn = "buildPaginatedURL"
            => res.val = [arg.url EXCEPT
                            !.path = arg.url.path \o PageSuffix(arg.typ, arg.page)]
       /\ fn = "normalizeToPageOneURL(built)" => res.val = arg.url

\* ------------------------------------------------------------ resolveURL
\* The text of a url reference is kept as its parts: the scheme before ":"
\* ("" when there is none), the host after "//" ("" when there is none),
\* the path as a text, and the fragment part "", "#" or "#f".
RawRef(s, h, p, f) == [scheme |-> s, host |-> h, path |-> p, frag |-> f]

\* strings.ToLower on the schemes of the model
ToLower(s) == IF s = "HTTPS" THEN "https" ELSE s

\* the escaped form of a character of a path; "é" is the one character of
\* the model outside ASCII
PathEscape(t) == [i \in 1..Len(t) |-> IF t[i] = "é" THEN "%C3%A9" ELSE t[i]]
PathUnescape(t) == [i \in 1..Len(t) |-> IF t[i] = "%C3%A9" THEN "é" ELSE t[i]]

\* url.Parse
Parse(raw) ==
  [Scheme |-> ToLower(raw.scheme),
   Host |-> raw.host,
   Path |-> PathUnescape(raw.path),
   RawPath |-> IF raw.path = PathEscape(PathUnescape(raw.path)) THEN <<>> ELSE raw.path,
   Fragment |-> IF raw.frag = "#" THEN "" ELSE raw.frag]

\* URL.EscapedPath(): RawPath when it is a valid encoding of Path
EscapedPath(u) ==
  IF /\ u.RawPath # <<>>
     /\ ~HasChar(u.RawPath, "é")
     /\ PathUnescape(u.RawPath) = u.Path
  THEN u.RawPath
  ELSE PathEscape(u.Path)

\* URL.String()
String(u) == RawRef(u.Scheme, u.Host, EscapedPath(u), u.Fragment)

\* URL.IsAbs()
IsAbs(u) == u.Scheme # ""

LastIndexOf(t, c) == CHOOSE i \in 1..Len(t) : t[i] = c /\ \A j \in (i + 1)..Len(t) : t[j] # c

\* net/url resolvePath, the loop over the elements of the merged path:
\* dst is the text written so far, first tells that nothing follows its "/"
RECURSIVE ResolveElems(_, _, _)
ResolveElems(elems, dst, first) ==
  IF elems = <<>> THEN dst
  ELSE LET elem == Head(elems)
           str == Tail(dst)
       IN CASE elem = <<".">> -> ResolveElems(Tail(elems), dst, FALSE)
            [] elem = <<".", ".">> ->
                 IF HasChar(str, "/")
                 THEN ResolveElems(Tail(elems),
                                   <<"/">> \o SubSeq(str, 1, LastIndexOf(str, "/") - 1),
                                   first)
                 ELSE ResolveElems(Tail(elems), <<"/">>, TRUE)
            [] OTHER ->
                 ResolveElems(Tail(elems),
                              dst \o (IF first THEN <<>> ELSE <<"/">>) \o elem,
                              FALSE)

\* net/url resolvePath(base, ref)
resolvePath(base, ref) ==
  LET full == IF ref = <<>> THEN base
              ELSE IF ref[1] # "/"
                   THEN (IF HasChar(base, "/")
                         THEN SubSeq(base, 1, LastIndexOf(base, "/")) ELSE <<>>) \o ref
                   ELSE ref
  IN IF full = <<>> THEN <<>>
     ELSE LET elems == SplitSlash(IF full[1] = "/" THEN Tail(full) ELSE full)
              last == elems[Len(elems)]
              dst == ResolveElems(elems, <<"/">>, TRUE)
              r == IF last = <<".">> \/ last = <<".", ".">> THEN dst \o <<"/">> ELSE dst
          IN IF Len(r) > 1 /\ r[2] = "/" THEN Tail(r) ELSE r

\* URL.ResolveReference(ref), for references without a query
ResolveReference(base, ref) ==
  IF ref.Scheme # "" \/ ref.Host # ""
  THEN [Scheme |-> IF ref.Scheme = "" THEN base.Scheme ELSE ref.Scheme,
        Host |-> ref.Host,
        Path |-> PathUnescape(resolvePath(EscapedPath(ref), <<>>)),
        RawPath |-> <<>>,
        Fragment |-> ref.Fragment]
  ELSE [Scheme |-> base.Scheme,
        Host |-> base.Host,
        Path |-> PathUnescape(resolvePath(EscapedPath(base), EscapedPath(ref))),
        RawPath |-> <<>>,
        Fragment |-> IF ref.Path = <<>> /\ ref.Fragment = ""
                     THEN base.Fragment ELSE ref.Fragment]

\* mutant of resolveURL: every target goes through ResolveReference
resolveURL_NoAbsCheck(base, target) ==
  String(ResolveReference(Parse(base), Parse(target)))

\* generateCrawlJobUseCase.resolveURL(base, target)
resolveURL(base, target) ==
  IF IsAbs(Parse(target)) THEN String(Parse(target))
  ELSE String(ResolveReference(Parse(base), Parse(target)))

\* the references given as target, and the bases
RefChars == {"/", "d", ".", "é"}
RefPaths == SeqsOver(RefChars, MaxPathLen)
Rooted(p) == p = <<>> \/ p[1] = "/"
Frags == {"", "#", "#f"}
TargetRefs ==
  {RawRef(s, "c", p, f) : s \in {"https", "HTTPS", ""},
                          p \in {q \in RefPaths : Rooted(q)}, f \in Frags}
    \cup {RawRef("", "", p, f) : p \in RefPaths, f \in Frags}
Bases == {RawRef("https", "a", p, "") : p \in {<<>>, <<"/">>, <<"/", "b">>, <<"/", "b", "/", "e">>}}

InitResolve ==
  /\ AtRest
  /\ faults = {}
  /\ fn = "none"
  /\ res = NoRes
  /\ lastOp = <<>>
  /\ arg \in [base : Bases, target : TargetRefs]

\* resolveURL(arg.base, arg.target)
Resolve ==
  /\ fn = "none"
  /\ fn' = "resolveURL"
  /\ res' = [ok |-> TRUE, val |-> resolveURL(arg.base, arg.target)]
  /\ UNCHANGED arg
  /\ FnFrame

NextResolve == Resolve

SpecResolve == InitResolve /\ [][NextResolve]_vars

\* the target is the text of an absolute url
AbsoluteTarget == arg.target.scheme # ""

\* the text net/url writes for an absolute url: the scheme in lower case,
\* the characters outside ASCII of the path escaped, no "#" without a fragment
Serialized(raw) ==
  [raw EXCEPT !.scheme = ToLower(raw.scheme),
              !.path = [i \in 1..Len(raw.path) |->
                          IF raw.path[i] = "é" THEN "%C3%A9" ELSE raw.path[i]],
              !.frag = IF raw.frag = "#" THEN "" ELSE raw.frag]

\* a path without "." and without "//"
PlainPath(p) ==
  /\ ~HasChar(p, ".")
  /\ \A i \in 1..(Len(p) - 1) : ~(p[i] = "/" /\ p[i + 1] = "/")

ParseRequestURI(raw) ==
  IF raw.scheme # ""
  THEN [ok |-> TRUE, u |-> Parse(raw)]
  ELSE LET p == (IF raw.host = "" THEN <<>> ELSE <<"/", "/", raw.host>>) \o raw.path
       IN IF p # <<>> /\ p[1] = "/"
          THEN [ok |-> TRUE,
                u |-> [Scheme |-> "", Host |-> "", Path |-> PathUnescape(p),
                       RawPath |-> IF p = PathEscape(PathUnescape(p)) THEN <<>> ELSE p,
                       Fragment |-> ""]]
          ELSE [ok |-> FALSE, u |-> Parse(RawRef("", "", <<>>, ""))]

\* the text of an identifier: 36 characters that spell the uuid numbered
\* body (0: that spell no uuid), with the characters before and after them;
\* body -1 is a text of another length
IdText(pre, body, post) == [pre |-> pre, body |-> body, post |-> post]

\* uuid.UUID.String()
UUIDString(i) == IdText("", i, "")

\* uuid.Parse: the forms of 36, 36+9 and 36+2 characters; of the last only
\* the middle 36 characters are examined
UUIDParse(t) ==
  LET known == /\ t.body \in Ids
               /\ \/ t.pre = "" /\ t.post = ""
                  \/ t.pre = "urn:uuid:" /\ t.post = ""
                  \/ t.pre \in {"{", "x"} /\ t.post \in {"}", "y"}
  IN [ok |-> known, id |-> IF known THEN t.body ELSE 0]

\* model.CrawlJob{id, url, status}
CrawlJob(i, u, s) == [id |-> i, url |-> u, status |-> s]
NoJob == CrawlJob(0, Parse(RawRef("", "", <<>>, "")), "")

\* model.NewCrawlJob(rawURL), with the id uuid.New() gave
NewCrawlJobOf(rawURL, i) ==
  IF ParseRequestURI(rawURL).ok
  THEN [ok |-> TRUE, val |-> CrawlJob(i, ParseRequestURI(rawURL).u, CrawlJobStatusPending)]
  ELSE [ok |-> FALSE, val |-> NoJob]

\* model.Reconstruct(id, rawURL, status)
Reconstruct(id, rawURL, status) ==
  IF ~UUIDParse(id).ok THEN [ok |-> FALSE, val |-> NoJob]
  ELSE IF ~ParseRequestURI(rawURL).ok THEN [ok |-> FALSE, val |-> NoJob]
  ELSE IF status \notin Statuses THEN [ok |-> FALSE, val |-> NoJob]
  ELSE [ok |-> TRUE,
        val |-> CrawlJob(UUIDParse(id).id, ParseRequestURI(rawURL).u, status)]

\* CrawlJobRecord and infra.ToRecord(job)
CrawlJobRecord(id, u, s) == [ID |-> id, URL |-> u, Status |-> s]
ToRecord(job) == CrawlJobRecord(UUIDString(job.id), String(job.url), job.status)

\* CrawlJobRecord.ToDomain()
ToDomain(rec) == Reconstruct(rec.ID, rec.URL, rec.Status)

\* the texts given as rawURL, the identifiers and the status strings of the
\* records read
RequestTexts ==
  {RawRef(s, "c", p, "") : s \in {"https", "HTTPS", ""},
                           p \in {q \in RefPaths : Rooted(q)}}
    \cup {RawRef("", "", p, "") : p \in RefPaths}
IdTexts ==
  {IdText(pre, b, post) : pre \in {"", "{", "x", "urn:uuid:"}, b \in {0, 1, 2},
                          post \in {"", "}", "y"}}
    \cup {IdText("", -1, "")}
StatusTexts == Statuses \cup {"", "pending", "DONE"}
RecordURLs ==
  {RawRef("https", "c", <<"/", "d">>, ""), RawRef("", "", <<"/", "d">>, ""),
   RawRef("", "", <<"d">>, "")}

InitJob ==
  /\ AtRest
  /\ faults = {}
  /\ fn = "none"
  /\ res = NoRes
  /\ lastOp = <<>>
  /\ \/ arg \in [rawURL : RequestTexts]
     \/ arg \in [rec : {CrawlJobRecord(i, u, s) :
                          i \in IdTexts, u \in RecordURLs, s \in StatusTexts}]

\* NewCrawlJob(arg.rawURL)
NewJob ==
  /\ fn = "none"
  /\ "rawURL" \in DOMAIN arg
  /\ fn' = "NewCrawlJob"
  /\ \E i \in {1, 2} : res' = NewCrawlJobOf(arg.rawURL, i)
  /\ UNCHANGED arg
  /\ FnFrame

\* CrawlJob.ChangeStatus(newStatus): the receiver takes the new status and
\* a copy of it is returned; a text that is no status is an error
ChangeStatusOf(job, newStatus) ==
  IF newStatus \in Statuses
  THEN [ok |-> TRUE, val |-> CrawlJob(job.id, job.url, newStatus)]
  ELSE [ok |-> FALSE, val |-> NoJob]

\* job.ChangeStatus(s) on the job in hand: the one just made or the one a
\* ChangeStatus before returned
ChangeJobStatus(s) ==
  /\ fn \in {"NewCrawlJob", "ChangeStatus"}
  /\ res.ok
  /\ fn' = "ChangeStatus"
  /\ res' = ChangeStatusOf(res.val, s)
  /\ UNCHANGED arg
  /\ FnFrame

\* ToRecord(job).ToDomain() on the job in hand
RecordRoundTrip ==
  /\ fn \in {"NewCrawlJob", "ChangeStatus"}
  /\ res.ok
  /\ fn' = "ToDomain(ToRecord)"
  /\ arg' = [job |-> res.val]
  /\ res' = ToDomain(ToRecord(res.val))
  /\ FnFrame

\* arg.rec.ToDomain()
ReadRecord ==
  /\ fn = "none"
  /\ "rec" \in DOMAIN arg
  /\ fn' = "ToDomain"
  /\ res' = ToDomain(arg.rec)
  /\ UNCHANGED arg
  /\ FnFrame

NextJob ==
  \/ NewJob
  \/ \E s \in StatusTexts : ChangeJobStatus(s)
  \/ RecordRoundTrip
  \/ ReadRecord

SpecJob == InitJob /\ [][NextJob]_vars

\* the text is an absolute url: it has a scheme
AbsoluteText(raw) == raw.scheme # ""

\* C28 (as stated): NewCrawlJob succeeds exactly for the texts that are an
\* absolute url and fails for every other text, relative references
\* included; a job it returns has status PENDING.
C28_ValidAtConstruction ==
  fn = "NewCrawlJob" =>
    /\ res.ok <=> AbsoluteText(arg.rawURL)
    /\ res.ok => res.val.status = CrawlJobStatusPending

\* an identifier in one of the forms of a uuid
WellFormedId(t) ==
  /\ t.body \in Ids
  /\ \/ t.pre = "" /\ t.post = ""
     \/ t.pre = "urn:uuid:" /\ t.post = ""
     \/ t.pre = "{" /\ t.post = "}"

\* C29 (as stated): a job turned into a record and read back has the same
\* id, url and status; reading a record fails when its status is not
\* PENDING, SUCCESS or FAILED and when its identifier is malformed.
C29_RecordRoundTrip ==
  /\ fn = "ToDomain(ToRecord)"
       => /\ res.ok
          /\ res.val.id = arg.job.id
          /\ String(res.val.url) = String(arg.job.url)
          /\ res.val.status = arg.job.status
  /\ (fn = "ToDomain" /\ (arg.rec.Status \notin Statuses \/ ~WellFormedId(arg.rec.ID)))
       => ~res.ok

\* ------------------------------------------------------ LoadCrawlerConfig
\* The fields of CrawlerConfig the checks between fields read; the other
\* required fields (base_url, user_agent, the link selectors, the seconds,
\* the output directory) are taken as given and valid. A text field is ""
\* when the file leaves it out. The loader is the one with crawl modes
\* ("modes") or the one with a retry count ("retry").
Loaders == {"modes", "retry"}
Auto == "auto"
Manual == "manual"
Configs ==
  [Mode : {"", Auto, Manual},
   Strategy : {"", CrawlByNextLink, CrawlByTotalCount, "url_list"},
   NextPageLocator : {"", "a.next"},
   TotalCountSelector : {"", ".count"},
   Urls : {<<>>, <<1>>},
   Type : {""} \cup PaginationTypes,
   ParamIdentifier : {"", "p"},
   PageFormat : {"", "%d"},
   PerPage : 0..MaxPerPage]

\* validator tags `required,oneof=...`
RequiredOneOf(x, S) == x # "" /\ x \in S

\* v.Struct(cfg) of the loader with modes
ValidStruct_Modes(cfg) ==
  /\ RequiredOneOf(cfg.Mode, {Auto, Manual})
  /\ RequiredOneOf(cfg.Strategy, {CrawlByNextLink, CrawlByTotalCount, "url_list"})
  /\ RequiredOneOf(cfg.Type, PaginationTypes)
  /\ cfg.PerPage >= 1

\* v.Struct(cfg) of the loader with a retry count: `min=1` on
\* param_identifier and on page_format refuses the empty text for every
\* pagination type
ValidStruct_Retry(cfg) ==
  /\ RequiredOneOf(cfg.Strategy, {CrawlByNextLink, CrawlByTotalCount})
  /\ RequiredOneOf(cfg.Type, PaginationTypes)
  /\ cfg.ParamIdentifier # ""
  /\ cfg.PageFormat # ""
  /\ cfg.PerPage >= 1

\* the checks after v.Struct
CustomChecks(loader, cfg) ==
  /\ ~(cfg.Strategy = CrawlByTotalCount /\ cfg.TotalCountSelector = "")
  /\ ~(cfg.Strategy = CrawlByNextLink /\ cfg.NextPageLocator = "")
  /\ loader = "modes" => ~(cfg.Mode = Manual /\ Len(cfg.Urls) = 0)
  /\ ~(cfg.Type # PaginationNone /\ cfg.ParamIdentifier = "")

LoadCrawlerConfig(loader, cfg) ==
  IF /\ IF loader = "modes" THEN ValidStruct_Modes(cfg) ELSE ValidStruct_Retry(cfg)
     /\ CustomChecks(loader, cfg)
  THEN [ok |-> TRUE, val |-> cfg]
  ELSE [ok |-> FALSE, val |-> cfg]

InitConfig ==
  /\ AtRest
  /\ faults = {}
  /\ fn = "none"
  /\ res = NoRes
  /\ lastOp = <<>>
  /\ arg \in [loader : Loaders, cfg : Configs]

\* LoadCrawlerConfig(path) on the file that spells arg.cfg
LoadConfig ==
  /\ fn = "none"
  /\ fn' = "LoadCrawlerConfig"
  /\ res' = LoadCrawlerConfig(arg.loader, arg.cfg)
  /\ UNCHANGED arg
  /\ FnFrame

NextConfig == LoadConfig

SpecConfig == InitConfig /\ [][NextConfig]_vars

\* a configuration one of the four constraints between fields refuses
Inconsistent(cfg) ==
  \/ cfg.Strategy = CrawlByTotalCount /\ cfg.TotalCountSelector = ""
  \/ cfg.Strategy = CrawlByNextLink /\ cfg.NextPageLocator = ""
  \/ cfg.Type # PaginationNone /\ cfg.ParamIdentifier = ""
  \/ cfg.Type \in {PaginationPath, PaginationSegment} /\ cfg.PageFormat = ""

\* C30 (as stated): LoadCrawlerConfig returns an error for strategy
\* total_count without total-count selector, strategy next_link without
\* next-page locator, a pagination type other than none without parameter
\* identifier, and pagination type path or segment without page format.
C30_RejectsInconsistent ==
  (fn = "LoadCrawlerConfig" /\ Inconsistent(arg.cfg)) => ~res.ok

\* ------------------------------------------------------ the key namespace
\* C31: the key of every record of the store is the prefix of the record's
\* status followed at once by the record's url, nothing in between, and the
\* enumeration of a status finds exactly the urls that have a record under
\* the key of that status.
C31_KeyNamespace ==
  /\ \A k \in KeySpace :
       store[k] # Nil
         => /\ k[1] = getJobKeyPattern(store[k].status)
            /\ k[2] = ""
            /\ k[3] = store[k].url
  /\ \A s \in Statuses :
       KeysOf(store, s) = {u \in URLs : HasRecord(store, s, u)}

\* ------------------------------------------------- the status of a job
\* C32: a job NewCrawlJob returns is PENDING, and a ChangeStatus that
\* succeeds either is made on a PENDING job or leaves the status as it was:
\* a SUCCESS or FAILED job never gets another status.
C32_OneWayStatus ==
  /\ []((fn = "NewCrawlJob" /\ res.ok)
          => res.val.status = CrawlJobStatusPending)
  /\ [][(fn' = "ChangeStatus" /\ res'.ok)
          => \/ res.val.status = CrawlJobStatusPending
             \/ res'.val.status = res.val.status]_vars

\* --------------------------------------------- records under submission
\* C33: a PENDING record that is in the store is not written again by a
\* submission: while the generator runs, the record under the PENDING key of
\* a url, its id with it, stays the one that was first written there.
C33_PendingNotOverwritten ==
  [][\A u \in URLs :
       PendingJob(store, u) # Nil
         => PendingJob(store', u) = PendingJob(store, u)]_vars

\* ------------------------------------------------ the end of an execution
\* C34: with the store and the sink working, the context live and the
\* process not killed, an executor that was started returns, also when the
\* navigation of a job fails at every attempt.
C34_ExecuteTerminates == (epc # "idle") ~> (epc = "done")

\* ------------------------------------------ generator and executor together
\* The queue with a generator and an executor that run one after the other,
\* in either order and any number of times while ids last; the site shows
\* one detail link in all
InitQueue ==
  /\ \E p \in 0..1 :
       store = [k \in KeySpace |->
                  IF k[1] = "pending_job:" /\ k[3] \in 1..p
                  THEN Job(k[3], k[3], CrawlJobStatusPending) ELSE Nil]
  /\ html = [i \in Ids |-> 0]
  /\ down = {}
  /\ faults \in {{}, {"store", "browser"}}
  /\ cancelled = FALSE
  /\ crashed = FALSE
  /\ ExecIdle
  /\ HistInit
  /\ FnIdle
  /\ gpc = "idle"
  /\ seedsLeft = 0
  /\ pageNum = 1
  /\ tasks = <<>>
  /\ pageJobCount = 0
  /\ jobCount = 0
  /\ gresult = "none"
  /\ linksLeft = 1
  /\ text = <<>>
  /\ TotalIdle
  /\ CfgNextLink

NextQueue ==
  \/ NextGen
  \/ \E v \in {"Run", "Execute"} : ExecStart(v)
  \/ StreamCtxDone
  \/ StreamScan
  \/ StreamGet
  \/ StreamNext
  \/ ExecRecv
  \/ ExecFind
  \/ ExecNavigate
  \/ ExecGetHTML
  \/ ExecSaveHTML
  \/ ExecDelete
  \/ ExecSaveSuccess
  \/ ExecSaveFailed
  \/ ExecSleep

SpecQueue == InitQueue /\ [][NextQueue]_vars

\* C35: a step made while the generator runs changes the store only by
\* putting a PENDING record under a PENDING key; a step made while the
\* executor runs changes it only by emptying a PENDING key or by putting a
\* SUCCESS or FAILED record under the key of that status; no other step
\* changes the store.
C35_DisjointWrites ==
  [][/\ GenRunning
          => \A k \in KeySpace :
               store'[k] # store[k]
                 => /\ k[1] = getJobKeyPattern(CrawlJobStatusPending)
                    /\ store'[k] # Nil
                    /\ store'[k].status = CrawlJobStatusPending
     /\ ExecRunning
          => \A k \in KeySpace :
               store'[k] # store[k]
                 => IF k[1] = getJobKeyPattern(CrawlJobStatusPending)
                    THEN store'[k] = Nil
                    ELSE /\ store'[k] # Nil
                         /\ store'[k].status \in {CrawlJobStatusSuccess,
                                                  CrawlJobStatusFailed}
                         /\ k[1] = getJobKeyPattern(store'[k].status)
     /\ (~GenRunning /\ ~ExecRunning) => store' = store]_vars

C35_Witness ==
  /\ gpc = "done"
  /\ epc = "done"
  /\ \E u \in URLs : \E s \in {CrawlJobStatusSuccess, CrawlJobStatusFailed} :
       /\ Pending(u)
       /\ HasRecord(store, s, u)
       /\ PendingJob(store, u).id # store[generateJobKey(Job(0, u, s))].id

\* ------------------------------------------- the record after a transition
\* C36: the PENDING record a transition deletes is the job in hand; the
\* SUCCESS record (in Run also the FAILED record) it writes has the id and
\* the url of that job; the artifact is stored under that id; so the id of
\* every SUCCESS record names an artifact stored for the record's url.
C36_SameIdAndArtifact ==
  /\ [][(epc = "delete" /\ store' # store)
          => /\ PendingJob(store, cur.url) = cur
             /\ store' = [store EXCEPT ![generatePendingJobKey(cur.url)] = Nil]]_vars
  /\ [][(epc = "saveSuccess" /\ store' # store)
          => store' = [store EXCEPT ![generateSuccessJobKey(cur.url)] =
                                      Job(cur.id, cur.url, CrawlJobStatusSuccess)]]_vars
  /\ [][(epc = "saveFailed" /\ store' # store)
          => store' = [store EXCEPT ![generateFailedJobKey(cur.url)] =
                                      Job(cur.id, cur.url, CrawlJobStatusFailed)]]_vars
  /\ [][(epc = "saveHTML" /\ html' # html)
          => html' = [html EXCEPT ![cur.id] = cur.url]]_vars
  /\ [](\A u \in URLs :
          Success(u)
            => /\ store[generateSuccessJobKey(u)].url = u
               /\ html[store[generateSuccessJobKey(u)].id] = u)

C36_Witness ==
  \E u, w \in URLs :
    /\ Success(u) /\ ~Pending(u)
    /\ html[store[generateSuccessJobKey(u)].id] = u
    /\ Failed(w) /\ Pending(w)
    /\ store[generateFailedJobKey(w)].id = PendingJob(store, w).id

\* ------------------------------------------------------ the reveal control
\* The executor with the tab control configured or not: every url has a
\* PENDING record, sites may refuse navigation, the browser works or may fail
\* at any call, the store works, the context stays live.
InitReveal ==
  /\ store = InitStore(URLs)
  /\ down \in SUBSET URLs
  /\ html = [i \in Ids |-> 0]
  /\ faults \in {{}, {"browser"}}
  /\ cancelled = FALSE
  /\ crashed = FALSE
  /\ ExecIdle
  /\ HistInit
  /\ GenIdle
  /\ gvariant = "Generate"
  /\ strategy = CrawlByNextLink
  /\ perPage = 1
  /\ start = 1
  /\ retryCount = 0
  /\ tabClick \in BOOLEAN

NextReveal ==
  \/ \E v \in {"Run", "Execute"} : ExecStart(v)
  \/ StreamScan
  \/ StreamGet
  \/ StreamNext
  \/ ExecRecv
  \/ ExecFind
  \/ ExecNavigate
  \/ ExecClick
  \/ ExecGetHTML
  \/ ExecSaveHTML
  \/ ExecDelete
  \/ ExecSaveSuccess
  \/ ExecSaveFailed
  \/ ExecSleep

SpecReveal == InitReveal /\ [][NextReveal]_vars

\* C37: a Click is issued only when the tab control is configured; the step
\* after a Click, failed or not, is GetHTML, and the Click changes no
\* record; when ExecuteCrawlJob has returned, every job whose Click failed
\* and whose processing returned no error has its SUCCESS record and no
\* PENDING record.
C37_RevealNonFatal ==
  /\ [](~tabClick => clicked = {})
  /\ [][(epc = "click" /\ epc' # "click")
          => /\ epc' = "getHTML"
             /\ cur' = cur
             /\ passFailed' = passFailed
             /\ store' = store]_vars
  /\ []((epc = "done" /\ variant = "Execute")
          => \A u \in clickFailed \ passFailed : Success(u) /\ ~Pending(u))

C37_Witness ==
  /\ epc = "done"
  /\ variant = "Execute"
  /\ \E u, w \in URLs :
       /\ u \in clickFailed \ passFailed
       /\ Success(u) /\ ~Pending(u)
       /\ w \in clicked \ clickFailed
       /\ w \in passFailed

\* ------------------------------------------- the count of createJobsByNextLink
\* the submissions of the page in hand that saved a PENDING record
Enqueued == {i \in 1..Len(tasks) : tasks[i].pc = "done" /\ tasks[i].job # Nil}

\* C38: when eg.Wait has returned nil the count grows by the number of links
\* of the page for which a PENDING record was saved, and it changes at no
\* other step of the resolver, so what is returned is the number of links
\* enqueued over the pages visited; a submission that saves adds one to the
\* page's counter whatever the other submissions do.
C38_CountIsEnqueued ==
  /\ [][(gpc = "wait" /\ gpc' = "exists")
          => jobCount' = jobCount + Cardinality(Enqueued)]_vars
  /\ [][(gpc \in {"exists", "click", "page"} /\ gpc' \in {"exists", "click", "page", "wait", "sleep"})
          => jobCount' = jobCount]_vars
  /\ [][(gpc = "wait" /\ store' # store) => pageJobCount' = pageJobCount + 1]_vars

\* ------------------------------------------------------ the retries of Run
\* C39: in Run a seed leaves the loop of the retries without success only
\* after retry_count + 1 failed attempts, and then it is not counted; the
\* count of successful seeds grows only when an attempt returned nil.
C39_RetryCount ==
  /\ [][(gvariant = "Run" /\ gpc = "retry" /\ gpc' = "seed")
          => /\ procErr
             /\ retry = retryCount + 1
             /\ successCount' = successCount]_vars
  /\ [][(gvariant = "Run" /\ successCount' # successCount)
          => /\ gpc = "pageLoop"
             /\ successCount' = successCount + 1]_vars

====
